---- MODULE Spec2Model ----
(***************************************************************************)
(* Model of the cross-source deduplication engine of llm-news              *)
(* (src/src/llm_news/dedup.py).                                            *)
(*                                                                         *)
(* Strings are TLA+ strings; the text functions of dedup.py are computed   *)
(* character by character.  The input domain is ASCII text: the codes 1 to *)
(* 127 but for the grave accent (96).  A URL has no bracketed host; the    *)
(* percent escapes of its query stand for any bytes.                       *)
(***************************************************************************)
EXTENDS Integers, Sequences, FiniteSets, TLC

-----------------------------------------------------------------------------
(* Characters and strings.  An operator that reads an argument more than   *)
(* once binds it first (x \in {e}), so that the argument is evaluated once. *)

UpperChars == "ABCDEFGHIJKLMNOPQRSTUVWXYZ"
LowerChars == "abcdefghijklmnopqrstuvwxyz"
DigitChars == "0123456789"

Min(S) == CHOOSE x \in S : \A y \in S : x <= y

Max(S) == CHOOSE x \in S : \A y \in S : x >= y

\* the only element of a one-element set
The(S) == CHOOSE x \in S : TRUE

\* s[a-1:b] of Python for 1-based a, b: out-of-range bounds are clipped
Sub(s, a, b) ==
    The({ IF lo > hi THEN "" ELSE SubSeq(v, lo, hi) :
          <<v, lo, hi>> \in { <<w, IF x < 1 THEN 1 ELSE x,
                                   IF y > Len(w) THEN Len(w) ELSE y>> :
                               <<w, x, y>> \in {<<s, a, b>>} } })

Char(s, i) == Sub(s, i, i)

\* s[i:] of Python, for a 1-based i
From(s, i) == The({Sub(v, i, Len(v)) : v \in {s}})

\* least j >= i with s[j] = c, or 0: str.find(c, i - 1)
IndexFrom(s, c, i) ==
    The({ IF hits = {} THEN 0 ELSE Min(hits) :
          hits \in { {j \in k..Len(v) : SubSeq(v, j, j) = d} :
                     <<v, d, k>> \in {<<s, c, i>>} } })

IndexOf(s, c) == The({IndexFrom(v, d, 1) : <<v, d>> \in {<<s, c>>}})

\* the characters of s, as a set
CharSet(s) == {SubSeq(s, i, i) : i \in 1..Len(s)}

UpperSet == CharSet(UpperChars)
LowerSet == CharSet(LowerChars)
DigitSet == CharSet(DigitChars)

IsUpper(c) == c \in UpperSet
IsLower(c) == c \in LowerSet
IsDigit(c) == c \in DigitSet

\* the printable ASCII characters in the order of their codes 32..126; the
\* place of code 96, which no string of the model holds, is kept by a space
AsciiPrintable ==
    " !\"#$%&'()*+,-./" \o DigitChars \o ":;<=>?@" \o UpperChars \o "[\\]^_"
    \o " " \o LowerChars \o "{|}~"

\* the ASCII characters in the order of their codes 1..127: the control
\* characters (written as they are, but for tab, line feed, form feed and
\* carriage return), the printable characters, and DEL
Ascii ==
    "\t\n\f\r" \o AsciiPrintable \o ""

\* chr(n) for n in 1..127
chr(n) == SubSeq(Ascii, n, n)

\* ord(c) of an ASCII character of the model
ord(c) == IndexOf(Ascii, c)

\* the ASCII characters for which str.isspace() holds, which are those \s of
\* the re module matches and str.strip() removes: tab, line feed, vertical
\* tab, form feed, carriage return, the separators 28..31, and the space
Whitespace == {chr(n) : n \in (9..13) \cup (28..32)}

IsSpace(c) == c \in Whitespace
\* \w of the re module, on ASCII
IsWord(c) == The({IsUpper(d) \/ IsLower(d) \/ IsDigit(d) \/ d = "_" : d \in {c}})

LowerChar(c) ==
    The({ IF d \in UpperSet THEN Char(LowerChars, IndexOf(UpperChars, d)) ELSE d :
          d \in {c} })

\* the characters of s, one string each
Chars(s) == The({[i \in 1..Len(v) |-> SubSeq(v, i, i)] : v \in {s}})

RECURSIVE Concat(_, _)
\* "".join(seq[i-1:])
Concat(seq, i) == IF i > Len(seq) THEN "" ELSE seq[i] \o Concat(seq, i + 1)

Join(seq) == The({Concat(v, 1) : v \in {seq}})

\* str.lower(): the string itself when it has no upper-case letter
Lower(s) ==
    The({ IF \A i \in 1..Len(v) : SubSeq(v, i, i) \notin UpperSet THEN v
          ELSE The({Join([i \in DOMAIN cs |-> LowerChar(cs[i])]) : cs \in {Chars(v)}}) :
          v \in {s} })

\* str.strip(): from the first to the last character that is not a space,
\* which is all of s when neither end of it is a space
Strip(s) ==
    The({ IF v # "" /\ ~IsSpace(SubSeq(v, 1, 1)) /\ ~IsSpace(SubSeq(v, Len(v), Len(v)))
          THEN v
          ELSE The({ IF keep = {} THEN "" ELSE Sub(v, Min(keep), Max(keep)) :
                     keep \in {{i \in 1..Len(v) : ~IsSpace(SubSeq(v, i, i))}} }) :
          v \in {s} })

\* str.rstrip("/")
RStripSlash(s) ==
    The({ IF keep = {} THEN "" ELSE Sub(v, 1, Max(keep)) :
          <<v, keep>> \in { <<w, {i \in 1..Len(w) : SubSeq(w, i, i) # "/"}>> :
                            w \in {s} } })

StartsWith(s, p) ==
    The({Len(v) >= Len(q) /\ Sub(v, 1, Len(q)) = q : <<v, q>> \in {<<s, p>>}})

RECURSIVE IntFrom(_, _, _)
IntFrom(s, i, acc) ==
    IF i > Len(s) THEN acc
    ELSE IntFrom(s, i + 1, acc * 10 + (IndexOf(DigitChars, SubSeq(s, i, i)) - 1))

\* int(s) for a string of digits
ToInt(s) == The({IntFrom(v, 1, 0) : v \in {s}})

-----------------------------------------------------------------------------
(* urllib.parse.urlparse, as normalize_url uses it *)

SchemeChars == LowerChars \o UpperChars \o DigitChars \o "+-."

SchemeSet == CharSet(SchemeChars)

\* position of the ":" that ends the scheme, or 0 when the URL has no scheme
SchemeEnd(url) ==
    The({ IF i > 1
             /\ (IsUpper(SubSeq(u, 1, 1)) \/ IsLower(SubSeq(u, 1, 1)))
             /\ \A j \in 1..(i - 1) : SubSeq(u, j, j) \in SchemeSet
          THEN i ELSE 0 :
          <<u, i>> \in {<<v, IndexOf(v, ":")>> : v \in {url}} })

\* least position >= i of one of "/", "?", "#", or Len(s) + 1
NetlocEnd(s, i) ==
    The({ IF hits = {} THEN Len(v) + 1 ELSE Min(hits) :
          <<v, hits>> \in { <<w, {j \in i..Len(w) : SubSeq(w, j, j) \in {"/", "?", "#"}}>> :
                            w \in {s} } })

\* s.split(c, 1) when c occurs in s, else <<s, "">>: the text before and after
Cut(s, c) ==
    The({ IF i = 0 THEN <<v, "">> ELSE <<Sub(v, 1, i - 1), From(v, i + 1)>> :
          <<v, i>> \in {<<w, IndexOf(w, c)>> : w \in {s}} })

\* url[:2] == "//": netloc, url = _splitnetloc(url, 2)
SplitNetloc(rest) ==
    The({ IF StartsWith(r, "//")
          THEN The({<<Sub(r, 3, ne - 1), From(r, ne)>> : ne \in {NetlocEnd(r, 3)}})
          ELSE <<"", r>> :
          r \in {rest} })

\* the schemes whose last path segment may carry ";params"
uses_params ==
    {"", "ftp", "hdl", "prospero", "http", "imap", "https", "shttp", "rtsp",
     "rtsps", "rtspu", "sip", "sips", "mms", "sftp", "tel"}

\* str.rfind(c): greatest j with s[j] = c, or 0
LastIndexOf(s, c) ==
    The({ IF hits = {} THEN 0 ELSE Max(hits) :
          hits \in { {j \in 1..Len(v) : SubSeq(v, j, j) = d} : <<v, d>> \in {<<s, c>>} } })

\* _splitparams(url): the path cut at the first ";" of its last segment
splitparams(path) ==
    The({ IF i = 0 THEN <<p, "">> ELSE <<Sub(p, 1, i - 1), From(p, i + 1)>> :
          <<p, i>> \in { <<q, IF IndexOf(q, "/") # 0
                               THEN IndexFrom(q, ";", LastIndexOf(q, "/"))
                               ELSE IndexOf(q, ";")>> : q \in {path} } })

\* _WHATWG_C0_CONTROL_OR_SPACE: the characters of the codes up to 32
C0_CONTROL_OR_SPACE == {chr(n) : n \in 1..32}

\* urlsplit drops the leading control characters and spaces of the URL, and
\* every tab, carriage return and line feed in it: nothing, when it starts
\* with none of the former and holds none of the latter
Cleaned(s) ==
    The({ IF /\ v # ""
             /\ SubSeq(v, 1, 1) \notin C0_CONTROL_OR_SPACE
             /\ \A i \in 1..Len(v) : SubSeq(v, i, i) \notin {"\t", "\r", "\n"}
          THEN v
          ELSE The({ IF keep = {} THEN ""
                     ELSE Join(SelectSeq(Chars(From(v, Min(keep))),
                                         LAMBDA c : c \notin {"\t", "\r", "\n"})) :
                     keep \in {{i \in 1..Len(v) :
                                  SubSeq(v, i, i) \notin C0_CONTROL_OR_SPACE}} }) :
          v \in {s} })

\* the 6-tuple of urlparse: scheme, netloc, path, params, query, fragment
urlparse(url) ==
    The({ [scheme   |-> sc,
           netloc   |-> nl[1],
           path     |-> pp[1],
           params   |-> pp[2],
           query    |-> pq[2],
           fragment |-> uf[2]] :
          <<sc, nl, uf, pq, pp>> \in
            { <<sc4, nl4, uf4, pq4,
                IF sc4 \in uses_params /\ IndexOf(pq4[1], ";") # 0
                THEN splitparams(pq4[1]) ELSE <<pq4[1], "">> >> :
              <<sc4, nl4, uf4, pq4>> \in
              { <<IF se3 = 0 THEN "" ELSE Lower(Sub(u3, 1, se3 - 1)), nl3, uf3,
                  Cut(uf3[1], "?")>> : <<u3, se3, nl3, uf3>> \in
                { <<u2, se2, nl2, Cut(nl2[2], "#")>> : <<u2, se2, nl2>> \in
                  { <<u1, se1, SplitNetloc(From(u1, se1 + 1))>> : <<u1, se1>> \in
                    { <<u0, SchemeEnd(u0)>> : u0 \in {Cleaned(url)} } } } } } })

\* ParseResult._hostinfo: netloc after its last "@", cut at the first ":"
\* into host name and port (a netloc with "[" is not in the alphabet)
hostinfo(parsed) ==
    The({ Cut(IF at = 0 THEN n ELSE From(n, at + 1), ":") :
          <<n, at>> \in { <<m, LastIndexOf(m, "@")>> : m \in {parsed.netloc} } })

\* ParseResult.hostname, lowercased ("" for None)
hostname(parsed) == Lower(hostinfo(parsed)[1])

\* the exception ParseResult.port raises, as the value of what raised it
ValueError == "ValueError"

\* the digits of s without leading zeros
StripZeros(s) ==
    The({ IF keep = {} THEN "" ELSE From(v, Min(keep)) :
          <<v, keep>> \in { <<w, {i \in 1..Len(w) : SubSeq(w, i, i) # "0"}>> :
                            w \in {s} } })

\* ParseResult.port raises: the port is not a string of digits, or it is
\* not in 0..65535
port_raises(parsed) ==
    The({ \/ \E i \in 1..Len(p) : ~IsDigit(SubSeq(p, i, i))
          \/ Len(StripZeros(p)) > 5
          \/ ToInt(StripZeros(p)) > 65535 :
          p \in {hostinfo(parsed)[2]} })

\* ParseResult.port: the number after ":", 0 for None, ValueError when
\* reading it raises
port(parsed) ==
    IF port_raises(parsed) THEN ValueError
    ELSE ToInt(hostinfo(parsed)[2])

RECURSIVE SplitFrom(_, _, _)
\* the fields of s from position i on, sep being a one-character separator
SplitFrom(s, sep, i) ==
    IF IndexFrom(s, sep, i) = 0 THEN <<Sub(s, i, Len(s))>>
    ELSE <<Sub(s, i, IndexFrom(s, sep, i) - 1)>>
         \o SplitFrom(s, sep, IndexFrom(s, sep, i) + 1)

\* str.split(sep)
Split(s, sep) == The({SplitFrom(v, sep, 1) : v \in {s}})

\* int(c, 16) of one character, -1 when it is not a hexadecimal digit
HexValue(c) ==
    The({ IF up # 0 THEN up - 1 ELSE IF lo # 0 THEN lo - 1 ELSE 0 - 1 :
          <<up, lo>> \in { <<IndexOf("0123456789ABCDEF", d), IndexOf("0123456789abcdef", d)>> :
                           d \in {c} } })

RECURSIVE UnquoteFrom(_, _)
\* unquote_to_bytes(s[i-1:].replace("+", " ")): an escape "%XX" is one byte,
\* a "%" that two hexadecimal digits do not follow stays itself
UnquoteFrom(s, i) ==
    IF i > Len(s) THEN <<>>
    ELSE IF /\ SubSeq(s, i, i) = "%"
            /\ i + 2 <= Len(s)
            /\ HexValue(SubSeq(s, i + 1, i + 1)) >= 0
            /\ HexValue(SubSeq(s, i + 2, i + 2)) >= 0
    THEN <<16 * HexValue(SubSeq(s, i + 1, i + 1)) + HexValue(SubSeq(s, i + 2, i + 2))>>
         \o UnquoteFrom(s, i + 3)
    ELSE <<IF SubSeq(s, i, i) = "+" THEN 32 ELSE ord(SubSeq(s, i, i))>>
         \o UnquoteFrom(s, i + 1)

\* U+FFFD, which stands for bytes that are not UTF-8
REPLACEMENT == 65533

\* the number of bytes that follow the lead byte b of a UTF-8 sequence, 0 when
\* b is not a lead byte
Utf8Tail(b) ==
    CASE b \in 194..223 -> 1
      [] b \in 224..239 -> 2
      [] b \in 240..244 -> 3
      [] OTHER -> 0

\* the bytes that may follow the lead byte b at once: neither an overlong
\* form, nor a surrogate, nor a code above U+10FFFF
Utf8Second(b) ==
    CASE b = 224 -> 160..191
      [] b = 237 -> 128..159
      [] b = 240 -> 144..191
      [] b = 244 -> 128..143
      [] OTHER -> 128..191

\* how many of the bytes after position i go on the sequence that starts there
Utf8Good(bytes, i) ==
    Cardinality({k \in 1..Utf8Tail(bytes[i]) :
                   \A j \in 1..k :
                      /\ i + j <= Len(bytes)
                      /\ bytes[i + j] \in (IF j = 1 THEN Utf8Second(bytes[i])
                                                   ELSE 128..191)})

\* the code point of the well-formed sequence of n + 1 bytes at position i
Utf8Code(bytes, i, n) ==
    CASE n = 1 -> (bytes[i] - 192) * 64 + (bytes[i + 1] - 128)
      [] n = 2 -> (bytes[i] - 224) * 4096 + (bytes[i + 1] - 128) * 64
                  + (bytes[i + 2] - 128)
      [] n = 3 -> (bytes[i] - 240) * 262144 + (bytes[i + 1] - 128) * 4096
                  + (bytes[i + 2] - 128) * 64 + (bytes[i + 3] - 128)

RECURSIVE DecodeFrom(_, _)
\* bytes[i-1:].decode("utf-8", "replace"), as character codes: a well-formed
\* sequence is one code, and the longest start of one, or a byte that starts
\* none, is U+FFFD
DecodeFrom(bytes, i) ==
    IF i > Len(bytes) THEN <<>>
    ELSE IF bytes[i] < 128 THEN <<bytes[i]>> \o DecodeFrom(bytes, i + 1)
    ELSE IF Utf8Tail(bytes[i]) = 0 THEN <<REPLACEMENT>> \o DecodeFrom(bytes, i + 1)
    ELSE IF Utf8Good(bytes, i) = Utf8Tail(bytes[i])
    THEN <<Utf8Code(bytes, i, Utf8Tail(bytes[i]))>>
         \o DecodeFrom(bytes, i + Utf8Tail(bytes[i]) + 1)
    ELSE <<REPLACEMENT>> \o DecodeFrom(bytes, i + Utf8Good(bytes, i) + 1)

\* unquote(s.replace("+", " ")), as the sequence of its character codes: the
\* bytes of the escapes are decoded as UTF-8 with errors="replace"
unquote_plus(s) == The({DecodeFrom(bs, 1) : bs \in {UnquoteFrom(s, 1)}})

\* urllib.parse.parse_qsl(query, keep_blank_values=True): empty fields are
\* skipped, a field is cut at its first "=", a missing value is blank, and
\* name and value are unquoted
parse_qsl(query) ==
    The({ [i \in 1..Len(kept) |->
             The({<<unquote_plus(nv[1]), unquote_plus(nv[2])>> : nv \in {Cut(kept[i], "=")}})] :
          kept \in {SelectSeq(Split(query, "&"), LAMBDA f : f # "")} })

\* parse_qs: the pairs grouped by name, names in order of first occurrence,
\* the values of a name in their order (a dict of lists, flattened)
GroupByName(pairs) ==
    The({ LET \* rank of pair i: (position of the first pair of its name, i)
                 lead(i) == Min({j \in 1..i : ps[j][1] = ps[i][1]})
                 before(i, j) == lead(i) < lead(j) \/ (lead(i) = lead(j) /\ i < j)
                 rank(i) == Cardinality({j \in 1..Len(ps) : before(j, i)}) + 1
          IN  [r \in 1..Len(ps) |-> ps[The({i \in 1..Len(ps) : rank(i) = r})]] :
          ps \in {pairs} })

RECURSIVE JoinWith(_, _, _)
JoinWith(seq, sep, i) ==
    IF i > Len(seq) THEN ""
    ELSE IF i = Len(seq) THEN seq[i]
    ELSE seq[i] \o sep \o JoinWith(seq, sep, i + 1)

\* chr(n).encode("utf-8"), as a sequence of bytes
Utf8Bytes(n) ==
    IF n < 128 THEN <<n>>
    ELSE IF n < 2048 THEN <<192 + (n \div 64), 128 + (n % 64)>>
    ELSE IF n < 65536
    THEN <<224 + (n \div 4096), 128 + ((n \div 64) % 64), 128 + (n % 64)>>
    ELSE <<240 + (n \div 262144), 128 + ((n \div 4096) % 64),
           128 + ((n \div 64) % 64), 128 + (n % 64)>>

\* "%XX" for the byte b
HexEscape(b) ==
    "%" \o Char("0123456789ABCDEF", (b \div 16) + 1)
        \o Char("0123456789ABCDEF", (b % 16) + 1)

\* quote_plus of one character code: letters, digits and "_.-~" stay, a
\* space becomes "+", every other byte of its UTF-8 form becomes "%XX"
QuoteCode(n) ==
    IF n = 32 THEN "+"
    ELSE IF \/ n \in 48..57 \/ n \in 65..90 \/ n \in 97..122
            \/ n \in {45, 46, 95, 126}
    THEN chr(n)
    ELSE The({Join([i \in DOMAIN bs |-> HexEscape(bs[i])]) : bs \in {Utf8Bytes(n)}})

\* urllib.parse.quote_plus of a sequence of character codes
quote_plus(codes) == The({Join([i \in DOMAIN cs |-> QuoteCode(cs[i])]) : cs \in {codes}})

\* urllib.parse.urlencode(d, doseq=True) on the flattened dict
urlencode(pairs) ==
    The({ JoinWith(fs, "&", 1) :
          fs \in { [i \in 1..Len(ps) |-> quote_plus(ps[i][1]) \o "=" \o quote_plus(ps[i][2])] :
                   ps \in {pairs} } })

\* str.lower() on character codes: no character beyond ASCII has a lower
\* case that a name of _TRACKING_PARAMS holds
LowerCodes(codes) == [i \in DOMAIN codes |-> IF codes[i] \in 65..90 THEN codes[i] + 32 ELSE codes[i]]

\* the character codes of a string of printable characters
Codes(s) == The({[i \in 1..Len(v) |-> ord(SubSeq(v, i, i))] : v \in {s}})

RECURSIVE ToStr(_)
\* str(n) for n >= 0
ToStr(n) ==
    IF n < 10 THEN Char(DigitChars, n + 1)
    ELSE ToStr(n \div 10) \o Char(DigitChars, (n % 10) + 1)

\* urllib.parse.urlunparse((scheme, netloc, path, "", query, ""))
urlunparse(scheme, netloc, path, query) ==
    The({ s \o ":"
          \o (IF n # "" \/ ~StartsWith(p, "//")
              THEN "//" \o n \o (IF p # "" /\ Char(p, 1) # "/" THEN "/" ELSE "") \o p
              ELSE p)
          \o (IF q # "" THEN "?" \o q ELSE "") :
          <<s, n, p, q>> \in {<<scheme, netloc, path, query>>} })

-----------------------------------------------------------------------------
(* dedup.py: source priority, URL normalization, canonical key, title *)

\* the keys of SOURCE_PRIORITY
ListedSources ==
    {"arxiv", "blog", "github", "hf_models", "hf_papers", "github_trending",
     "pwc", "hackernews", "reddit"}

\* a table whose default ranks an unlisted source with the second tier
SOURCE_PRIORITY_default_2(source) ==
    CASE source \in {"arxiv", "blog", "github", "hf_models"} -> 1
      [] source \in {"hf_papers", "github_trending", "pwc"} -> 2
      [] source \in {"hackernews", "reddit"} -> 3
      [] OTHER -> 2

\* SOURCE_PRIORITY.get(source, 5)
SOURCE_PRIORITY(source) ==
    CASE source \in {"arxiv", "blog", "github", "hf_models"} -> 1
      [] source \in {"hf_papers", "github_trending", "pwc"} -> 2
      [] source \in {"hackernews", "reddit"} -> 3
      [] OTHER -> 5

TRACKING_PARAMS ==
    {"utm_source", "utm_medium", "utm_campaign", "utm_content", "utm_term",
     "ref", "source", "fbclid", "gclid", "mc_cid", "mc_eid"}

\* the names of _TRACKING_PARAMS as sequences of character codes
TRACKING_PARAM_CODES == {Codes(name) : name \in TRACKING_PARAMS}

\* netloc of the normalized URL: host without "www.", and the port unless it
\* is absent, 80 or 443; ValueError when reading the port raises
normalized_netloc(parsed) ==
    IF port_raises(parsed) THEN ValueError
    ELSE The({ (IF StartsWith(host0, "www.") THEN From(host0, 5) ELSE host0)
               \o (IF prt # 0 /\ prt \notin {80, 443} THEN ":" \o ToStr(prt) ELSE "") :
               <<host0, prt>> \in {<<hostname(parsed), port(parsed)>>} })

\* the filter with a case-sensitive test of the parameter name
normalized_query_case_sensitive(parsed) ==
    IF parsed.query # ""
    THEN urlencode(SelectSeq(GroupByName(parse_qsl(parsed.query)),
                             LAMBDA nv : nv[1] \notin TRACKING_PARAM_CODES))
    ELSE ""

\* the query of the normalized URL: the tracking parameters filtered out
normalized_query(parsed) ==
    IF parsed.query # ""
    THEN urlencode(SelectSeq(GroupByName(parse_qsl(parsed.query)),
                             LAMBDA nv : LowerCodes(nv[1]) \notin TRACKING_PARAM_CODES))
    ELSE ""

\* the normalized URL, or ValueError when parsed.port raises; the params of
\* the path are not passed on to urlunparse
normalize_url(url) ==
    The({ IF u = "" THEN u
          ELSE The({ IF netloc = ValueError THEN ValueError
                     ELSE urlunparse("https", netloc,
                                     RStripSlash(parsed.path), normalized_query(parsed)) :
                     <<parsed, netloc>> \in
                       { <<p, normalized_netloc(p)>> : p \in {urlparse(u)} } }) :
          u \in {Strip(url)} })

\* None of Python
None == "None"

ARXIV_ID_PATTERNS == <<"arxiv.org/abs/", "arxiv.org/pdf/", "huggingface.co/papers/">>

\* \d{4}\.\d{4} at position i of s: a fifth digit is never taken
ArxivIdAt_four_digits(s, i) ==
    IF /\ i + 8 <= Len(s)
       /\ \A j \in i..(i + 3) : IsDigit(SubSeq(s, j, j))
       /\ SubSeq(s, i + 4, i + 4) = "."
       /\ \A j \in (i + 5)..(i + 8) : IsDigit(SubSeq(s, j, j))
    THEN SubSeq(s, i, i + 8)
    ELSE ""

\* \d{4}\.\d{4,5} at position i of s: the matched text, or "" when it does not match
ArxivIdAt(s, i) ==
    IF /\ i + 8 <= Len(s)
       /\ \A j \in i..(i + 3) : IsDigit(SubSeq(s, j, j))
       /\ SubSeq(s, i + 4, i + 4) = "."
       /\ \A j \in (i + 5)..(i + 8) : IsDigit(SubSeq(s, j, j))
    THEN IF i + 9 <= Len(s) /\ IsDigit(SubSeq(s, i + 9, i + 9))
         THEN SubSeq(s, i, i + 9) ELSE SubSeq(s, i, i + 8)
    ELSE ""

\* pattern.search(url).group(1) for the pattern prefix(\d{4}\.\d{4,5}): the
\* leftmost match, or "" when there is none
PatternSearch(prefix, url) ==
    The({ IF starts = {} THEN "" ELSE ArxivIdAt(u, Min(starts) + Len(pre)) :
          <<pre, u, starts>> \in
            { <<p, v, {i \in 1..Len(v) : /\ Sub(v, i, i + Len(p) - 1) = p
                                         /\ ArxivIdAt(v, i + Len(p)) # ""}>> :
              <<p, v>> \in {<<prefix, url>>} } })

\* the first pattern of _ARXIV_ID_PATTERNS that matches decides the key
extract_canonical_key(item) ==
    The({ IF hits = {} THEN None ELSE "arxiv:" \o ids[Min(hits)] :
          <<ids, hits>> \in
            { <<v, {k \in DOMAIN v : v[k] # ""}>> :
              v \in { [k \in DOMAIN ARXIV_ID_PATTERNS |->
                          PatternSearch(ARXIV_ID_PATTERNS[k], u)] : u \in {item.url} } } })

MIN_TITLE_LENGTH == 15

\* re.sub(r"[^\w\s]", " ", title)
PunctToSpace(s) ==
    The({ Join([i \in DOMAIN cs |-> IF IsWord(cs[i]) \/ IsSpace(cs[i]) THEN cs[i] ELSE " "]) :
          cs \in {Chars(s)} })

\* re.sub(r"\s+", " ", title): the first space of a run becomes " ", those
\* that follow it are dropped
CollapseSpaces(s) ==
    The({ Join([i \in DOMAIN cs |->
                  IF ~IsSpace(cs[i]) THEN cs[i]
                  ELSE IF i > 1 /\ IsSpace(cs[i - 1]) THEN "" ELSE " "]) :
          cs \in {Chars(s)} })

normalize_title(title) == Strip(CollapseSpaces(PunctToSpace(Strip(Lower(title)))))

-----------------------------------------------------------------------------
(* models.py: NewsItem, the fields deduplicate reads *)

NewsItem(title, url, source) == [title |-> title, url |-> url, source |-> source]

-----------------------------------------------------------------------------
(* The inputs of a call: batches over a catalogue of items, and histories *)

MaxBatch == 3

I_arxiv  == NewsItem("Paper X: A Study of LLMs", "http://arxiv.org/abs/2602.06570v1", "arxiv")
I_hf     == NewsItem("paper x - a study of llms!", "https://huggingface.co/papers/2602.06570", "hf_papers")
I_reddit == NewsItem("Paper X: A Study of LLMs", "https://www.reddit.com/r/ml/comments/abc/", "reddit")
I_hn     == NewsItem("OpenAI ships a new model", "https://openai.com/index/post/", "hackernews")
I_blog   == NewsItem("OpenAI ships a new model", "https://openai.com/index/post", "blog")
I_pwc    == NewsItem("Paper X - a study of LLMs", "https://openai.com/index/post?utm_source=pwc", "pwc")
I_github == NewsItem("GPT-5", "https://ARXIV.org/abs/2602.06570v1", "github")
I_a      == NewsItem("GPT-5", "https://a.com/1", "blog")
I_b      == NewsItem("gpt 5", "https://b.com/2", "hackernews")
I_tweet  == NewsItem("", "http://www.b.com/2/", "twitter")
I_nourl  == NewsItem("!!!", "", "reddit")
I_hf2    == NewsItem("Scaling laws, revisited again", "https://huggingface.co/papers/2501.00001", "hf_papers")
I_arxiv2 == NewsItem("OpenAI ships a new model", "http://arxiv.org/abs/2501.00001v2", "arxiv")
I_port   == NewsItem("GPT-5", "http://localhost:99999/demo", "github")

Catalogue ==
    {I_arxiv, I_hf, I_reddit, I_hn, I_blog, I_pwc, I_github, I_a, I_b,
     I_tweet, I_nourl, I_hf2, I_arxiv2, I_port}

Batches == UNION {[1..n -> Catalogue] : n \in 0..MaxBatch}

Histories ==
    { [urls |-> {}, canonical_keys |-> {}],
      [urls |-> {"https://openai.com/index/post/"}, canonical_keys |-> {}],
      [urls |-> {}, canonical_keys |-> {"arxiv:2602.06570"}] }

\* the retention caps of save_history
MAX_URLS == 10000

MAX_CANONICAL_KEYS == 5000

\* the five digits of n, with leading zeros
Digits5(n) == From(ToStr(100000 + n), 2)

\* the entries of a history that has reached both caps: the URLs and the
\* keys that earlier runs left in the file
FullUrls == [n \in 1..MAX_URLS |-> "https://b.com/" \o Digits5(n)] \o <<>>

FullKeys == [n \in 1..MAX_CANONICAL_KEYS |-> "arxiv:2602." \o Digits5(n)] \o <<>>

\* The text functions over the strings of the model, evaluated once.  Every
\* use below of normalize_url, extract_canonical_key and normalize_title goes
\* through these tables.
AllUrls == {i.url : i \in Catalogue} \cup UNION {h.urls : h \in Histories}

AllTitles == {i.title : i \in Catalogue}

NormUrlTable == {<<u, normalize_url(u)>> : u \in AllUrls}

\* normalize_url of the URLs a history file can hold
HistoryNormUrl ==
    [u \in AllUrls \cup {FullUrls[n] : n \in DOMAIN FullUrls} |-> normalize_url(u)]

CanonKeyTable == {<<u, extract_canonical_key([url |-> u])>> : u \in AllUrls}

NormTitleTable == {<<t, normalize_title(t)>> : t \in AllTitles}

Lookup(table, x) == (CHOOSE p \in table : p[1] = x)[2]

norm_url_of(item) == Lookup(NormUrlTable, item.url)

canon_key_of(item) == Lookup(CanonKeyTable, item.url)

norm_title_of(item) == Lookup(NormTitleTable, item.title)


-----------------------------------------------------------------------------
(* dedup.py: deduplicate *)

\* _pick_preferred that never prefers the new item
pick_preferred_keep_existing(existing, new) == existing

\* _pick_preferred with "<=" for "<": on equal priority the new item wins
pick_preferred_ties_new(existing, new) ==
    IF SOURCE_PRIORITY(new.source) <= SOURCE_PRIORITY(existing.source)
    THEN new ELSE existing

\* the newest duplicate always wins
pick_preferred_newest(existing, new) == new

\* _pick_preferred: the new item only when its source priority is strictly lower
pick_preferred(existing, new) ==
    LET existing_pri == SOURCE_PRIORITY(existing.source)
        new_pri      == SOURCE_PRIORITY(new.source)
    IN  IF new_pri < existing_pri THEN new ELSE existing

\* {normalize_url(u) for u in history_urls}
normalized_history_urls(history) == {HistoryNormUrl[u] : u \in history.urls}

\* building normalized_history_urls raises: normalize_url does for a URL of
\* the history
history_raises(history) == ValueError \in normalized_history_urls(history)

\* norm_url = normalize_url(item.url) raises
item_raises(item) == norm_url_of(item) = ValueError

\* Layer 0 without the test of the normalized URL
in_history_raw_only(item, history) ==
    \/ item.url \in history.urls
    \/ (canon_key_of(item) # None /\ canon_key_of(item) \in history.canonical_keys)

\* Layer 0: the two tests that drop an item already reported
in_history(item, history) ==
    LET norm_url  == norm_url_of(item)
        canon_key == canon_key_of(item)
    IN  \/ item.url \in history.urls
        \/ norm_url \in normalized_history_urls(history)
        \/ (canon_key # None /\ canon_key \in history.canonical_keys)

\* the title gate with a threshold of 5 characters
title_indexable_min5(norm_title) == norm_title # "" /\ Len(norm_title) >= 5

\* no title gate at all
title_indexable_always(norm_title) == TRUE

\* norm_title and len(norm_title) >= _MIN_TITLE_LENGTH
title_indexable(norm_title) ==
    norm_title # "" /\ Len(norm_title) >= MIN_TITLE_LENGTH

\* an empty dict
EmptyIndex == [k \in {} |-> 0]

\* d[k] = v
Put(d, k, v) == [x \in DOMAIN d \cup {k} |-> IF x = k THEN v ELSE d[x]]

\* the local state of one deduplicate call before any item is processed
EmptyState ==
    [result |-> <<>>, canonical_index |-> EmptyIndex,
     norm_url_index |-> EmptyIndex, title_index |-> EmptyIndex]

\* only the source of the preferred item is stored: result[idx].source = ...
replace_at_merge_source(result, idx, preferred) ==
    [result EXCEPT ![idx].source = preferred.source]

\* result[idx] = preferred
replace_at(result, idx, preferred) == [result EXCEPT ![idx] = preferred]

\* Layer 1 matched: resolve against result[canonical_index[canon_key]]
canonical_dedup(st, item) ==
    LET norm_url   == norm_url_of(item)
        canon_key  == canon_key_of(item)
        norm_title == norm_title_of(item)
        idx        == st.canonical_index[canon_key]
        existing   == st.result[idx]
        preferred  == pick_preferred(existing, item)
    IN  IF preferred # existing
        THEN [st EXCEPT
                !.result = replace_at(st.result, idx, preferred),
                !.norm_url_index = Put(st.norm_url_index, norm_url, idx),
                !.title_index = IF title_indexable(norm_title)
                                THEN Put(st.title_index, norm_title, idx)
                                ELSE st.title_index]
        ELSE st

\* Layer 2 matched: resolve against result[norm_url_index[norm_url]]
url_dedup(st, item) ==
    LET norm_url   == norm_url_of(item)
        canon_key  == canon_key_of(item)
        norm_title == norm_title_of(item)
        idx        == st.norm_url_index[norm_url]
        existing   == st.result[idx]
        preferred  == pick_preferred(existing, item)
    IN  IF preferred # existing
        THEN [st EXCEPT
                !.result = replace_at(st.result, idx, preferred),
                !.canonical_index = IF canon_key # None
                                    THEN Put(st.canonical_index, canon_key, idx)
                                    ELSE st.canonical_index,
                !.title_index = IF title_indexable(norm_title)
                                THEN Put(st.title_index, norm_title, idx)
                                ELSE st.title_index]
        ELSE st

\* Layer 3 that indexes the URL of the new item even when it loses
title_dedup_registers_loser(st, item) ==
    LET idx       == st.title_index[norm_title_of(item)]
        existing  == st.result[idx]
        preferred == pick_preferred(existing, item)
    IN  [st EXCEPT
           !.result = IF preferred # existing
                      THEN replace_at(st.result, idx, preferred) ELSE st.result,
           !.norm_url_index = Put(st.norm_url_index, norm_url_of(item), idx),
           !.canonical_index = IF preferred # existing /\ canon_key_of(item) # None
                               THEN Put(st.canonical_index, canon_key_of(item), idx)
                               ELSE st.canonical_index]

\* Layer 3 with a replacement that refreshes the URL index only
title_dedup_url_only(st, item) ==
    LET idx       == st.title_index[norm_title_of(item)]
        existing  == st.result[idx]
        preferred == pick_preferred(existing, item)
    IN  IF preferred # existing
        THEN [st EXCEPT
                !.result = replace_at(st.result, idx, preferred),
                !.norm_url_index = Put(st.norm_url_index, norm_url_of(item), idx)]
        ELSE st

\* Layer 3 matched: resolve against result[title_index[norm_title]]
title_dedup(st, item) ==
    LET norm_url   == norm_url_of(item)
        canon_key  == canon_key_of(item)
        norm_title == norm_title_of(item)
        idx        == st.title_index[norm_title]
        existing   == st.result[idx]
        preferred  == pick_preferred(existing, item)
    IN  IF preferred # existing
        THEN [st EXCEPT
                !.result = replace_at(st.result, idx, preferred),
                !.norm_url_index = Put(st.norm_url_index, norm_url, idx),
                !.canonical_index = IF canon_key # None
                                    THEN Put(st.canonical_index, canon_key, idx)
                                    ELSE st.canonical_index]
        ELSE st

\* registration that inserts the item at the front of the result
register_prepend(st, item) ==
    [result |-> <<item>> \o st.result,
     canonical_index |-> IF canon_key_of(item) # None
                         THEN Put(st.canonical_index, canon_key_of(item), Len(st.result) + 1)
                         ELSE st.canonical_index,
     norm_url_index |-> Put(st.norm_url_index, norm_url_of(item), Len(st.result) + 1),
     title_index |-> IF title_indexable(norm_title_of(item))
                     THEN Put(st.title_index, norm_title_of(item), Len(st.result) + 1)
                     ELSE st.title_index]

\* registration that forgets the title index
register_without_title(st, item) ==
    [result |-> Append(st.result, item),
     canonical_index |-> IF canon_key_of(item) # None
                         THEN Put(st.canonical_index, canon_key_of(item), Len(st.result) + 1)
                         ELSE st.canonical_index,
     norm_url_index |-> Put(st.norm_url_index, norm_url_of(item), Len(st.result) + 1),
     title_index |-> st.title_index]

\* no duplicate found: append and register under every key of the item
register(st, item) ==
    LET norm_url   == norm_url_of(item)
        canon_key  == canon_key_of(item)
        norm_title == norm_title_of(item)
        idx        == Len(st.result) + 1
    IN  [result |-> Append(st.result, item),
         canonical_index |-> IF canon_key # None
                             THEN Put(st.canonical_index, canon_key, idx)
                             ELSE st.canonical_index,
         norm_url_index |-> Put(st.norm_url_index, norm_url, idx),
         title_index |-> IF title_indexable(norm_title)
                         THEN Put(st.title_index, norm_title, idx)
                         ELSE st.title_index]

\* no Layer 1: the canonical index is never consulted
canonical_match_never(st, item) == FALSE

\* Layer 1 tried last: the key is consulted only when neither the URL nor
\* the title of the item is indexed
canonical_match_after_url(st, item) ==
    /\ canon_key_of(item) # None
    /\ canon_key_of(item) \in DOMAIN st.canonical_index
    /\ norm_url_of(item) \notin DOMAIN st.norm_url_index
    /\ ~(/\ title_indexable(norm_title_of(item))
         /\ norm_title_of(item) \in DOMAIN st.title_index)

\* the guards of the three layers, as the loop body tests them in order
canonical_match(st, item) ==
    LET canon_key == canon_key_of(item)
    IN  canon_key # None /\ canon_key \in DOMAIN st.canonical_index

url_match(st, item) == norm_url_of(item) \in DOMAIN st.norm_url_index

title_match(st, item) ==
    LET norm_title == norm_title_of(item)
    IN  title_indexable(norm_title) /\ norm_title \in DOMAIN st.title_index

\* one iteration of "for item in items"
loop_body(st, item, history) ==
    IF in_history(item, history) THEN st
    ELSE IF canonical_match(st, item) THEN canonical_dedup(st, item)
    ELSE IF url_match(st, item) THEN url_dedup(st, item)
    ELSE IF title_match(st, item) THEN title_dedup(st, item)
    ELSE register(st, item)

RECURSIVE loop_from(_, _, _, _)
loop_from(st, items, i, history) ==
    IF i > Len(items) THEN st
    ELSE loop_from(loop_body(st, items[i], history), items, i + 1, history)

\* deduplicate(items, history) raises: normalize_url is called on every URL
\* of the history and on the URL of every item, outside any try block
deduplicate_raises(items, history) ==
    history_raises(history) \/ \E i \in DOMAIN items : item_raises(items[i])

\* deduplicate(items, history): the returned list, when the call returns
deduplicate(items, history) == loop_from(EmptyState, items, 1, history).result

-----------------------------------------------------------------------------
(* dedup.py: the history file, load_history and save_history *)

\* the history file is a record: status "absent" (no file), "inaccessible"
\* (its directory denies search, stat fails), "unreadable" (its mode denies
\* reading, as for a write-only file), "malformed" (the text is not the JSON
\* object the loader expects) or "ok"; data is the JSON object the text of
\* the file stands for, a function from its keys to lists, where that is
\* known: for a file that is "ok" and for one save_history wrote
AbsentFile == [status |-> "absent"]

DataFile(data) == [status |-> "ok", data |-> data]

\* data.get(key, [])
Get(data, key) == IF key \in DOMAIN data THEN data[key] ELSE <<>>

\* set(list)
ToSet(list) == {list[i] : i \in DOMAIN list}

\* history files a run can find: the four kinds of missing or broken file, an
\* object without canonical_keys, and objects as save_history writes them
HistoryFiles ==
    { AbsentFile, [status |-> "inaccessible"], [status |-> "unreadable"],
      [status |-> "malformed"],
      DataFile([urls |-> <<"https://openai.com/index/post/">>]),
      DataFile([count |-> 0, urls |-> <<>>,
                canonical_keys |-> <<"arxiv:2602.06570">>]),
      DataFile([count |-> 3,
                urls |-> <<"https://a.com/1", "https://b.com/2",
                           "https://www.reddit.com/r/ml/comments/abc/">>,
                canonical_keys |-> <<"arxiv:2602.06570", "arxiv:2603.00001">>]) }

RECURSIVE StrLessFrom(_, _, _)
StrLessFrom(a, b, i) ==
    IF i > Len(b) THEN FALSE
    ELSE IF i > Len(a) THEN TRUE
    ELSE IF SubSeq(a, i, i) = SubSeq(b, i, i) THEN StrLessFrom(a, b, i + 1)
    ELSE ord(SubSeq(a, i, i)) < ord(SubSeq(b, i, i))

\* a < b of Python strings: by code point, a proper prefix first
StrLess(a, b) == The({StrLessFrom(x, y, 1) : <<x, y>> \in {<<a, b>>}})

\* the strings of S in ascending order
sort_strings(S) ==
    The({ [r \in 1..Cardinality(T) |->
              The({x \in T : Cardinality({y \in T : StrLess(y, x)}) = r - 1})] :
          T \in {S} })

\* the URLs and canonical keys of the catalogue and of the short history files
ShortStrings ==
    AllUrls \cup {p[2] : p \in CanonKeyTable}
            \cup UNION {h.canonical_keys : h \in Histories}
            \cup UNION {ToSet(Get(f.data, "urls")) \cup ToSet(Get(f.data, "canonical_keys")) :
                        f \in {g \in HistoryFiles : g.status = "ok"}}

\* the entries of the full history, keys before URLs: both lists are in
\* ascending order as written, and "a" < "h"
FullStrings == FullKeys \o FullUrls

RECURSIVE BelowIn(_, _, _)
\* how many strings of FullStrings are less than x, given that the first lo
\* are and those after the first hi are not: by bisection
BelowIn(x, lo, hi) ==
    IF lo = hi THEN lo
    ELSE The({ IF StrLess(FullStrings[mid], x) THEN BelowIn(x, mid, hi)
               ELSE BelowIn(x, lo, mid - 1) :
               mid \in {(lo + hi + 1) \div 2} })

RECURSIVE Interleave(_, _, _)
\* FullStrings after its first n entries, with the strings of the ascending
\* list short from the k-th on put in at their places
Interleave(short, k, n) ==
    IF k > Len(short) THEN SubSeq(FullStrings, n + 1, Len(FullStrings))
    ELSE The({ SubSeq(FullStrings, n + 1, m) \o <<short[k]>> \o Interleave(short, k + 1, m) :
               m \in {BelowIn(short[k], n, Len(FullStrings))} })

\* the URLs and canonical keys of the model, evaluated once
KnownStrings == ShortStrings \cup ToSet(FullStrings)

\* all of them in one list, evaluated once
SortedStrings == Interleave(sort_strings(ShortStrings \ ToSet(FullStrings)), 1, 0)

\* that list is in ascending order, evaluated once
TableAscending ==
    \A i \in 1..(Len(SortedStrings) - 1) : StrLess(SortedStrings[i], SortedStrings[i + 1])

\* sorted(S) for a set of strings
sorted(S) ==
    IF TableAscending /\ S \subseteq KnownStrings
    THEN SelectSeq(SortedStrings, LAMBDA x : x \in S)
    ELSE sort_strings(S)

\* the truncation that keeps the head of the list: list[:cap]
keep_first(list, cap) ==
    IF Len(list) > cap THEN SubSeq(list, 1, cap) ELSE list

\* list[-cap:] when len(list) > cap, else the list
keep_last(list, cap) ==
    IF Len(list) > cap THEN SubSeq(list, Len(list) - cap + 1, Len(list)) ELSE list

\* HISTORY_PATH.exists() raises: Path.exists() re-raises the errors of stat()
\* other than "no such file"
exists_raises(file) == file.status = "inaccessible"

\* load_history() raises: exists() is called outside the try block
load_history_raises(file) == exists_raises(file)

\* load_history(): the dict of two sets it returns
load_history(file) ==
    IF file.status = "ok"
    THEN [urls |-> ToSet(Get(file.data, "urls")),
          canonical_keys |-> ToSet(Get(file.data, "canonical_keys"))]
    ELSE [urls |-> {}, canonical_keys |-> {}]

\* save_history(history): the data written (without the time stamp)
save_history(history) ==
    The({ [count |-> Len(url_list), urls |-> url_list, canonical_keys |-> canon_list] :
          <<url_list, canon_list>> \in
             {<<keep_last(sorted(history.urls), MAX_URLS),
                keep_last(sorted(history.canonical_keys), MAX_CANONICAL_KEYS)>>} })

\* HISTORY_PATH.write_text(text) that succeeds: the file holds the text, and
\* its mode is as it was, so that a file that could not be read still cannot
written(file, data) ==
    [status |-> IF file.status = "unreadable" THEN "unreadable" ELSE "ok", data |-> data]

\* HISTORY_PATH.write_text(text) that stops on the way: the file holds no
\* text or a part of it
cut_short(file) ==
    IF file.status = "unreadable" THEN [status |-> "unreadable"]
    ELSE [status |-> "malformed"]

-----------------------------------------------------------------------------
(* One call of deduplicate as a state machine: one step per loop iteration *)

VARIABLES items, history, pos, pc, result, canonical_index, norm_url_index,
          title_index, file, calls, report, saved_report, passed, outcome,
          input, output, futures

vars == <<items, history, pos, pc, result, canonical_index, norm_url_index,
          title_index, file, calls, report, saved_report, passed, outcome,
          input, output, futures>>

\* the argument and the value of a text function applied on its own
text_vars == <<input, output>>

\* the state of a run of the pipeline around the call: the history file, the
\* stages called so far, the report returned by process, the reports written
\* by save_report, the arguments save_history was called with (report and
\* passed are lists with one entry per call, saved_report has one entry per
\* report written) and the way the run ended
run_vars == <<file, calls, report, saved_report, passed, outcome>>

\* the futures of _collect_all: for each collector submitted to the executor,
\* where its task is and what it returned
pool_vars == <<futures>>

\* no collector was submitted
NoFutures == [c \in {} |-> 0]

\* the locals of deduplicate other than the result
loop_vars == <<pos, canonical_index, norm_url_index, title_index>>

\* the locals of the call, as the record the loop body works on
State ==
    [result |-> result, canonical_index |-> canonical_index,
     norm_url_index |-> norm_url_index, title_index |-> title_index]

SetState(st) ==
    /\ result' = st.result
    /\ canonical_index' = st.canonical_index
    /\ norm_url_index' = st.norm_url_index
    /\ title_index' = st.title_index

\* the call is about to raise: on entry, for a URL of the history, or at the
\* top of the loop body, for the URL of the current item
Raising ==
    /\ pc = "loop"
    /\ \/ pos = 1 /\ history_raises(history)
       \/ pos <= Len(items) /\ item_raises(items[pos])

InLoop == pc = "loop" /\ pos <= Len(items) /\ ~Raising

Init ==
    /\ items \in Batches
    /\ history \in Histories
    /\ pos = 1
    /\ pc = "loop"
    /\ result = <<>>
    /\ canonical_index = EmptyIndex
    /\ norm_url_index = EmptyIndex
    /\ title_index = EmptyIndex
    /\ file = AbsentFile
    /\ calls = <<>>
    /\ report = <<>>
    /\ saved_report = <<>>
    /\ passed = <<>>
    /\ outcome = "running"
    /\ input = <<>>
    /\ output = <<>>
    /\ futures = NoFutures

\* Layer 0: the item is in history and is skipped
HistoryFilter ==
    /\ InLoop
    /\ in_history(items[pos], history)
    /\ pos' = pos + 1
    /\ UNCHANGED <<items, history, pc, result, canonical_index, norm_url_index,
                   title_index>>
    /\ UNCHANGED run_vars
    /\ UNCHANGED text_vars
    /\ UNCHANGED pool_vars

\* Layer 1
CanonicalDedup ==
    /\ InLoop
    /\ ~in_history(items[pos], history)
    /\ canonical_match(State, items[pos])
    /\ SetState(canonical_dedup(State, items[pos]))
    /\ pos' = pos + 1
    /\ UNCHANGED <<items, history, pc>>
    /\ UNCHANGED run_vars
    /\ UNCHANGED text_vars
    /\ UNCHANGED pool_vars

\* Layer 2
UrlDedup ==
    /\ InLoop
    /\ ~in_history(items[pos], history)
    /\ ~canonical_match(State, items[pos])
    /\ url_match(State, items[pos])
    /\ SetState(url_dedup(State, items[pos]))
    /\ pos' = pos + 1
    /\ UNCHANGED <<items, history, pc>>
    /\ UNCHANGED run_vars
    /\ UNCHANGED text_vars
    /\ UNCHANGED pool_vars

\* Layer 3
TitleDedup ==
    /\ InLoop
    /\ ~in_history(items[pos], history)
    /\ ~canonical_match(State, items[pos])
    /\ ~url_match(State, items[pos])
    /\ title_match(State, items[pos])
    /\ SetState(title_dedup(State, items[pos]))
    /\ pos' = pos + 1
    /\ UNCHANGED <<items, history, pc>>
    /\ UNCHANGED run_vars
    /\ UNCHANGED text_vars
    /\ UNCHANGED pool_vars

\* no layer matched
Register ==
    /\ InLoop
    /\ ~in_history(items[pos], history)
    /\ ~canonical_match(State, items[pos])
    /\ ~url_match(State, items[pos])
    /\ ~title_match(State, items[pos])
    /\ SetState(register(State, items[pos]))
    /\ pos' = pos + 1
    /\ UNCHANGED <<items, history, pc>>
    /\ UNCHANGED run_vars
    /\ UNCHANGED text_vars
    /\ UNCHANGED pool_vars

\* normalize_url raises ValueError, and so does deduplicate
NormalizeRaises ==
    /\ Raising
    /\ pc' = "raised"
    /\ UNCHANGED <<items, history, pos, result, canonical_index, norm_url_index,
                   title_index>>
    /\ UNCHANGED run_vars
    /\ UNCHANGED text_vars
    /\ UNCHANGED pool_vars

\* the loop is over: return result
Return ==
    /\ pc = "loop"
    /\ pos > Len(items)
    /\ ~Raising
    /\ pc' = "done"
    /\ UNCHANGED <<items, history, pos, result, canonical_index, norm_url_index,
                   title_index>>
    /\ UNCHANGED run_vars
    /\ UNCHANGED text_vars
    /\ UNCHANGED pool_vars

Next ==
    \/ HistoryFilter
    \/ CanonicalDedup
    \/ UrlDedup
    \/ TitleDedup
    \/ Register
    \/ NormalizeRaises
    \/ Return

Spec == Init /\ [][Next]_vars

Done == pc = "done"

\* the state machine and the function agree on every call
ReturnsDeduplicate == Done => result = deduplicate(items, history)

-----------------------------------------------------------------------------
(* processor.py: process, as far as run() depends on it *)

MaxScore == 1

MaxTopN == 2

\* the values of config.llm.top_n, an int the configuration does not check
TopNs == (0 - MaxTopN)..MaxTopN

\* what the two LLM calls of process do: the first one fails, or it gives the
\* items their scores; then the second one fails, or returns a script, which
\* may be empty
LlmOutcomes == {"summarize_failed", "script_failed", "empty_script", "ok"}

\* items.sort(key=lambda x: x.score, reverse=True): stable, best score first
sort_by_score(list, scores) ==
    The({ [r \in 1..Len(l) |->
             l[The({i \in 1..Len(l) :
                      Cardinality({j \in 1..Len(l) :
                                     \/ sc[j] > sc[i]
                                     \/ (sc[j] = sc[i] /\ j < i)}) = r - 1})]] :
          <<l, sc>> \in {<<list, scores>>} })

\* items[:top_n]: a negative top_n counts from the end of the list
take(list, top_n) ==
    The({ SubSeq(l, 1, IF n < 0 THEN Len(l) + n
                       ELSE IF n < Len(l) THEN n ELSE Len(l)) :
          <<l, n>> \in {<<list, top_n>>} })

\* process(items, config, settings): the DailyReport, and the list in its new
\* order (the sort is in place, on the list of the caller).  scores are the
\* values of item.score when the sort runs: those the collectors set, replaced
\* by those of the LLM for the items the first call gave a score before it
\* returned or failed.
process(list, llm, scores, top_n) ==
    The({ [top_items |-> take(ranked, top_n),
           script    |-> IF llm = "ok" THEN "script" ELSE "",
           llm_ok    |-> llm = "ok",
           items     |-> ranked] :
          ranked \in {sort_by_score(list, scores)} })

-----------------------------------------------------------------------------
(* main.py: run(), one step per stage.  In a run, items is all_items, history
   is the dict load_history returned and result is the list run() calls items:
   the output of deduplicate, re-ordered in place by process. *)

MaxCollected == 2

\* what _collect_all can return
RunCatalogue == {I_arxiv, I_reddit, I_nourl, I_hf2, I_port}

Collected == UNION {[1..n -> RunCatalogue] : n \in 0..MaxCollected}

\* {item.url for item in items}
new_urls(list) == {list[i].url : i \in DOMAIN list}

\* {key for item in items if (key := extract_canonical_key(item)) is not None}
new_canon_keys(list) == {canon_key_of(list[i]) : i \in DOMAIN list} \ {None}

\* the dict run() passes to save_history
accumulated(hist, list) ==
    [urls |-> hist.urls \cup new_urls(list),
     canonical_keys |-> hist.canonical_keys \cup new_canon_keys(list)]

\* the run is over: by return, by sys.exit(1) or by an exception
End(how) == pc' = "end" /\ outcome' = how

\* run() starts, with f as the history file
RunStart(f) ==
    /\ items = <<>>
    /\ history = [urls |-> {}, canonical_keys |-> {}]
    /\ pos = 1
    /\ pc = "collect"
    /\ result = <<>>
    /\ canonical_index = EmptyIndex
    /\ norm_url_index = EmptyIndex
    /\ title_index = EmptyIndex
    /\ file = f
    /\ calls = <<>>
    /\ report = <<>>
    /\ saved_report = <<>>
    /\ passed = <<>>
    /\ outcome = "running"
    /\ input = <<>>
    /\ output = <<>>
    /\ futures = NoFutures

RunInit == \E f \in HistoryFiles : RunStart(f)

\* all_items = _collect_all(config, settings); return when nothing was collected
CollectAllOf(batches) ==
    /\ pc = "collect"
    /\ \E batch \in batches :
          /\ items' = batch
          /\ IF batch = <<>> THEN End("returned")
             ELSE pc' = "load_history" /\ outcome' = outcome
    /\ calls' = Append(calls, "collect_all")
    /\ UNCHANGED <<history, result, file, report, saved_report, passed>>
    /\ UNCHANGED loop_vars
    /\ UNCHANGED text_vars
    /\ UNCHANGED pool_vars

CollectAll == CollectAllOf(Collected)

\* history = load_history()
LoadHistory ==
    /\ pc = "load_history"
    /\ IF load_history_raises(file)
       THEN /\ End("raised")
            /\ calls' = Append(calls, "load_history:raised")
            /\ history' = history
       ELSE /\ pc' = "deduplicate"
            /\ outcome' = outcome
            /\ calls' = Append(calls, "load_history")
            /\ history' = load_history(file)
    /\ UNCHANGED <<items, result, file, report, saved_report, passed>>
    /\ UNCHANGED loop_vars
    /\ UNCHANGED text_vars
    /\ UNCHANGED pool_vars

\* items = deduplicate(all_items, history); return when nothing is left
Deduplicate ==
    /\ pc = "deduplicate"
    /\ IF deduplicate_raises(items, history)
       THEN /\ End("raised")
            /\ calls' = Append(calls, "deduplicate:raised")
            /\ result' = result
       ELSE /\ result' = deduplicate(items, history)
            /\ IF result' = <<>> THEN End("returned")
               ELSE pc' = "process" /\ outcome' = outcome
            /\ calls' = Append(calls, "deduplicate")
    /\ UNCHANGED <<items, history, file, report, saved_report, passed>>
    /\ UNCHANGED loop_vars
    /\ UNCHANGED text_vars
    /\ UNCHANGED pool_vars

\* a run that goes on whatever process reports
exits_after_process_never(rep) == FALSE

\* if not report.llm_ok: sys.exit(1)
exits_after_process(rep) == ~rep.llm_ok

\* report = process(items, config, settings); sys.exit(1) unless report.llm_ok
Process ==
    /\ pc = "process"
    /\ \E llm \in LlmOutcomes, top_n \in TopNs,
          scores \in [DOMAIN result -> 0..MaxScore] :
          LET r == process(result, llm, scores, top_n)
          IN  /\ report' = <<[top_items |-> r.top_items, script |-> r.script,
                              llm_ok |-> r.llm_ok]>>
              /\ result' = r.items
              /\ IF exits_after_process(report'[1]) THEN End("exit")
                 ELSE pc' = "save_report" /\ outcome' = outcome
    /\ calls' = Append(calls, "process")
    /\ UNCHANGED <<items, history, file, saved_report, passed>>
    /\ UNCHANGED loop_vars
    /\ UNCHANGED text_vars
    /\ UNCHANGED pool_vars

\* day_dir = save_report(report, ...): it writes daily_report.md, then
\* raw_items.json, then broadcast_script.txt, and returns; or one of its steps
\* raises, before the report was written (mkdir, the first write) or after it
\* (a later write)
SaveReport ==
    /\ pc = "save_report"
    /\ \/ /\ saved_report' = Append(saved_report, report[1].top_items)
          /\ calls' = Append(calls, "save_report")
          /\ pc' = "audio"
          /\ outcome' = outcome
       \/ /\ saved_report' \in {saved_report, Append(saved_report, report[1].top_items)}
          /\ calls' = Append(calls, "save_report:raised")
          /\ End("raised")
    /\ UNCHANGED <<items, history, result, file, report, passed>>
    /\ UNCHANGED loop_vars
    /\ UNCHANGED text_vars
    /\ UNCHANGED pool_vars

\* an optional stage outside try/except: its exception ends the run
OptionalStage_uncaught(here, name, next) ==
    /\ pc = here
    /\ \/ /\ calls' = Append(calls, name)
          /\ pc' = next
          /\ outcome' = outcome
       \/ /\ calls' = Append(calls, name \o ":raised")
          /\ End("raised")
    /\ UNCHANGED <<items, history, result, file, report, saved_report, passed>>
    /\ UNCHANGED loop_vars
    /\ UNCHANGED text_vars
    /\ UNCHANGED pool_vars

\* an optional stage inside try/except: it is called and returns, or it is
\* called and its exception is logged; the run goes on either way
OptionalStage(here, name, next) ==
    /\ pc = here
    /\ \/ calls' = Append(calls, name)
       \/ calls' = Append(calls, name \o ":caught")
    /\ pc' = next
    /\ UNCHANGED <<items, history, result, file, report, saved_report, passed,
                   outcome>>
    /\ UNCHANGED loop_vars
    /\ UNCHANGED text_vars
    /\ UNCHANGED pool_vars

\* a stage that the configuration switches off
SkippedStage(here, next) ==
    /\ pc = here
    /\ pc' = next
    /\ UNCHANGED <<items, history, result, report>>
    /\ UNCHANGED run_vars
    /\ UNCHANGED loop_vars
    /\ UNCHANGED text_vars
    /\ UNCHANGED pool_vars

\* generate_audio(...): report.script is not empty here, since llm_ok is true
GenerateAudio == OptionalStage("audio", "generate_audio", "pages")

\* build_pages(...) if config.push.enabled and config.push.site_url
BuildPages ==
    \/ OptionalStage("pages", "build_pages", "push")
    \/ SkippedStage("pages", "push")

\* push_report(...) if config.push.enabled and config.push.bark_enabled
PushReport ==
    \/ OptionalStage("push", "push_report", "save_history")
    \/ SkippedStage("push", "save_history")

\* a failed save raises out of run()
after_failed_save_returns == "returned"

\* how run() ends when save_history raises: nothing catches the exception
after_failed_save == "raised"

\* Phase 7 with the URLs of the report only
phase7_top_items_only(hist, list, rep) == accumulated(hist, rep.top_items)

\* Phase 7 with the new identifiers only
phase7_new_only(hist, list, rep) ==
    accumulated([urls |-> {}, canonical_keys |-> {}], list)

\* Phase 7: the argument of save_history, from the loaded history, the list
\* items and the report
phase7(hist, list, rep) == accumulated(hist, list)

\* Phase 7, save_history({...}) at the end of run(): the file is written, and
\* stays unreadable if it was; or the call raises with the file as it was
\* (mkdir or open failed) or cut short (the write failed)
UpdateHistory ==
    /\ pc = "save_history"
    /\ passed' = Append(passed, phase7(history, result, report[1]))
    /\ \/ /\ file' = written(file, save_history(passed'[Len(passed')]))
          /\ calls' = Append(calls, "save_history")
          /\ End("returned")
       \/ /\ file' \in {file, cut_short(file)}
          /\ calls' = Append(calls, "save_history:raised")
          /\ End(after_failed_save)
    /\ UNCHANGED <<items, history, result, report, saved_report>>
    /\ UNCHANGED loop_vars
    /\ UNCHANGED text_vars
    /\ UNCHANGED pool_vars

\* what a stop of the process during HISTORY_PATH.write_text(text) leaves of
\* the file: write_text opens the file for writing, which truncates it, writes
\* the text and closes the file.  Before the open the file is as it was;
\* between the open and the end of the write it is empty or holds a prefix
\* of the text, which json.loads rejects; after the write it is the new file.
write_text_interrupted(old, data) == {old, cut_short(old), written(old, data)}

\* the process is killed while save_history is writing (a signal, a power
\* loss): the call neither returns nor raises, so calls and passed, which
\* record the calls that came back, stay as they are
CrashDuringSave ==
    /\ pc = "save_history"
    /\ file' \in write_text_interrupted(
                    file, save_history(phase7(history, result, report[1])))
    /\ End("killed")
    /\ UNCHANGED <<items, history, result, calls, report, saved_report, passed>>
    /\ UNCHANGED loop_vars
    /\ UNCHANGED text_vars
    /\ UNCHANGED pool_vars

RunNext ==
    \/ CollectAll
    \/ LoadHistory
    \/ Deduplicate
    \/ Process
    \/ SaveReport
    \/ GenerateAudio
    \/ BuildPages
    \/ PushReport
    \/ UpdateHistory
    \/ CrashDuringSave

RunSpec == RunInit /\ [][RunNext]_vars

RunOver == pc = "end"

-----------------------------------------------------------------------------
(* run() on a history file that has reached the caps of save_history, or is
   one entry short of them *)

\* the history file with 10,000 URLs and 5,000 keys, and the one with 9,999
\* and 4,999
FullHistoryFiles ==
    { DataFile([count |-> Len(FullUrls), urls |-> FullUrls, canonical_keys |-> FullKeys]),
      DataFile([count |-> Len(FullUrls) - 1, urls |-> Tail(FullUrls),
                canonical_keys |-> Tail(FullKeys)]) }

FullRunInit == \E f \in FullHistoryFiles : RunStart(f)

\* what the collectors return in such a run: nothing, or an arXiv paper,
\* whose URL is less than the URLs of the file and whose key is greater than
\* its keys, or a paper of Hugging Face, whose URL is greater and whose key
\* is less
FullCollected == {<<>>, <<I_arxiv>>, <<I_hf2>>}

CollectNew == CollectAllOf(FullCollected)

FullRunNext ==
    \/ CollectNew
    \/ LoadHistory
    \/ Deduplicate
    \/ Process
    \/ SaveReport
    \/ GenerateAudio
    \/ BuildPages
    \/ PushReport
    \/ UpdateHistory
    \/ CrashDuringSave

FullRunSpec == FullRunInit /\ [][FullRunNext]_vars

-----------------------------------------------------------------------------
(* Vocabulary of the properties *)

Pri(item) == SOURCE_PRIORITY(item.source)

Range(seq) == {seq[i] : i \in DOMAIN seq}

\* how often v occurs among the first n elements of seq
Count(seq, n, v) == Cardinality({i \in 1..n : seq[i] = v})

SameKey(a, b) == canon_key_of(a) # None /\ canon_key_of(a) = canon_key_of(b)

SameUrl(a, b) == norm_url_of(a) = norm_url_of(b)

SameLongTitle(a, b) ==
    /\ norm_title_of(a) = norm_title_of(b)
    /\ Len(norm_title_of(a)) >= MIN_TITLE_LENGTH

\* the relation the three layers test between two items
JudgedDuplicates(a, b) == SameKey(a, b) \/ SameUrl(a, b) \/ SameLongTitle(a, b)

\* Layer 0 as the specification words it
MatchedByHistory(item) ==
    \/ item.url \in history.urls
    \/ \E u \in history.urls : Lookup(NormUrlTable, u) = norm_url_of(item)
    \/ canon_key_of(item) \in history.canonical_keys

NoneInHistory == \A i \in DOMAIN items : ~MatchedByHistory(items[i])

\* the smallest source priority of a non-empty batch
MinPri(seq) == Min({Pri(seq[i]) : i \in DOMAIN seq})

-----------------------------------------------------------------------------
(* C1 *)

\* C1: deduplicate is idempotent: applied to its own output with the same
\* history, it returns that output unchanged.
C1_Idempotent == Done => deduplicate(result, history) = result

-----------------------------------------------------------------------------
(* C2 *)

\* a batch of two items, neither in history, that the layers judge duplicates
PairOfDuplicates ==
    /\ Done
    /\ Len(items) = 2
    /\ NoneInHistory
    /\ JudgedDuplicates(items[1], items[2])

Swapped == <<items[2], items[1]>>

\* C2 as stated: both arrival orders return the same single item, the one of
\* the better priority.
C2_SameWinnerBothOrders ==
    PairOfDuplicates =>
        /\ Len(result) = 1
        /\ deduplicate(Swapped, history) = result
        /\ Pri(result[1]) = MinPri(items)

\* C2 amended: both arrival orders return a single item of the better
\* priority; it is the same item in both orders when the priorities differ,
\* and the first-arrived item of each order when the priorities are equal.
C2_WinnerByPriority ==
    PairOfDuplicates =>
        LET other == deduplicate(Swapped, history)
        IN  /\ Len(result) = 1 /\ Len(other) = 1
            /\ Pri(result[1]) = MinPri(items)
            /\ Pri(other[1]) = MinPri(items)
            /\ Pri(items[1]) # Pri(items[2]) => other = result
            /\ Pri(items[1]) = Pri(items[2]) =>
                   result = <<items[1]>> /\ other = <<items[2]>>

\* a pair whose second item has the better priority and has replaced the first
C2_Witness ==
    /\ PairOfDuplicates
    /\ Pri(items[2]) < Pri(items[1])
    /\ result = <<items[2]>>
    /\ deduplicate(Swapped, history) = <<items[2]>>

-----------------------------------------------------------------------------
(* C3 *)

\* C3: at every point of a call, no item of the result has its raw URL in
\* history.urls, its normalized URL among the normalized history URLs, or its
\* canonical key in history.canonical_keys.
C3_HistorySuppression ==
    \A p \in DOMAIN result : ~MatchedByHistory(result[p])

\* a finished call that kept an item and dropped another one whose URL is in
\* history only in normalized form, although it duplicates the kept item's title
C3_Witness ==
    /\ Done
    /\ result # <<>>
    /\ \E i \in DOMAIN items :
          /\ items[i].url \notin history.urls
          /\ MatchedByHistory(items[i])
          /\ \E p \in DOMAIN result : SameLongTitle(items[i], result[p])

-----------------------------------------------------------------------------
(* C4 *)

\* C4: every element of the result is an item of the processed input with all
\* fields unchanged, no input occurrence is used twice, and the result is
\* never longer than the input.
C4_NoFabrication ==
    /\ Len(result) <= pos - 1
    /\ \A v \in Range(result) :
          /\ v \in Range(items)
          /\ Count(result, Len(result), v) <= Count(items, pos - 1, v)

\* a finished call of three distinct items in which the third replaced the first
C4_Witness ==
    /\ Done
    /\ Len(items) = 3
    /\ Cardinality(Range(items)) = 3
    /\ Len(result) = 2
    /\ result[1] = items[3]
    /\ result[2] = items[2]
    /\ items[1].source # items[3].source

-----------------------------------------------------------------------------
(* C5 *)

\* C5 as stated: two items in output order are in the same order in the input.
C5_OrderPreserving ==
    Done =>
        \A p, q \in DOMAIN result :
            p < q => \E i, j \in DOMAIN items :
                        i < j /\ items[i] = result[p] /\ items[j] = result[q]

\* the p-th smallest element of a set of numbers
Nth(S, p) == CHOOSE x \in S : Cardinality({y \in S : y < x}) = p - 1

\* C5 amended: output positions follow the order of first arrival.  There are
\* input positions a(1) < ... < a(n), one per output position, such that
\* position p holds items[a(p)] or an item that arrived after a(p) with a
\* strictly better priority (it replaced the entry in place).
C5_FirstArrivalOrder ==
    Done =>
        \E S \in SUBSET DOMAIN items :
            /\ Cardinality(S) = Len(result)
            /\ \A p \in DOMAIN result :
                  \/ result[p] = items[Nth(S, p)]
                  \/ \E j \in DOMAIN items :
                        /\ j > Nth(S, p)
                        /\ result[p] = items[j]
                        /\ Pri(items[j]) < Pri(items[Nth(S, p)])

\* a finished call whose first output item arrived after its second one
C5_Witness ==
    /\ Done
    /\ Len(items) = 3
    /\ Len(result) = 2
    /\ result[1] = items[3]
    /\ result[2] = items[2]
    /\ items[3] \notin {items[1], items[2]}
    /\ Pri(items[3]) < Pri(items[1])

-----------------------------------------------------------------------------
(* C6 *)

\* the rearrangements of a sequence
Rearrangements(seq) ==
    { [i \in DOMAIN seq |-> seq[f[i]]] :
      f \in {g \in [DOMAIN seq -> DOMAIN seq] : \A i, j \in DOMAIN seq : g[i] = g[j] => i = j} }

\* how many items of seq have source priority n, for each n: the multiset of
\* priorities
PriorityCounts(seq) ==
    [n \in 1..5 |-> Cardinality({i \in DOMAIN seq : Pri(seq[i]) = n})]

\* C6: every rearrangement of the batch gives an output of the same length
\* and the same multiset of source priorities.
C6_OrderInsensitive ==
    Done =>
        \A P \in Rearrangements(items) :
            /\ Len(deduplicate(P, history)) = Len(result)
            /\ PriorityCounts(deduplicate(P, history)) = PriorityCounts(result)

-----------------------------------------------------------------------------
(* C7 *)

\* the position the current item is resolved against: that of the first layer
\* that matches, 0 when none does
MatchedPosition ==
    IF canonical_match(State, items[pos]) THEN canonical_index[canon_key_of(items[pos])]
    ELSE IF url_match(State, items[pos]) THEN norm_url_index[norm_url_of(items[pos])]
    ELSE IF title_match(State, items[pos]) THEN title_index[norm_title_of(items[pos])]
    ELSE 0

\* the current item is judged a duplicate of an entry of equal or better priority
LosingDuplicate ==
    /\ InLoop
    /\ ~MatchedByHistory(items[pos])
    /\ MatchedPosition # 0
    /\ Pri(items[pos]) >= Pri(result[MatchedPosition])

\* C7: a duplicate whose priority is equal to or worse than that of the entry
\* it matches is dropped: the step leaves the result list as it was.
C7_TieKeepsExisting ==
    [][LosingDuplicate => (result' = result /\ pos' = pos + 1)]_vars

\* two different items of equal priority, duplicates of each other: the
\* first one is the output
C7_Witness ==
    /\ Done
    /\ Len(items) = 2
    /\ NoneInHistory
    /\ JudgedDuplicates(items[1], items[2])
    /\ items[1].source # items[2].source
    /\ Pri(items[1]) = Pri(items[2])
    /\ result = <<items[1]>>

-----------------------------------------------------------------------------
(* C8 *)

\* two items, neither in history, with no common canonical key, different
\* normalized URLs and the same normalized title of fewer than 15 characters
ShortTitlePair ==
    /\ Len(items) = 2
    /\ NoneInHistory
    /\ ~SameKey(items[1], items[2])
    /\ ~SameUrl(items[1], items[2])
    /\ norm_title_of(items[1]) = norm_title_of(items[2])
    /\ Len(norm_title_of(items[1])) < MIN_TITLE_LENGTH

\* C8: two items that agree only on a normalized title shorter than 15
\* characters (the empty title included) are both returned.
C8_ShortTitleNoMerge == (Done /\ ShortTitlePair) => result = items

\* such a pair with a non-empty title, both items returned
C8_Witness ==
    /\ Done
    /\ ShortTitlePair
    /\ norm_title_of(items[1]) # ""
    /\ items[1].title # items[2].title
    /\ result = items

-----------------------------------------------------------------------------
(* C9 *)

\* a non-empty batch, no item in history, all items of one normalized title of
\* at least 15 characters
SingleTitleCluster ==
    /\ items # <<>>
    /\ NoneInHistory
    /\ \A i \in DOMAIN items : SameLongTitle(items[1], items[i])

\* C9: a batch whose items all share one normalized title of at least 15
\* characters collapses to one item, of the best priority in the batch.
C9_SingleClusterCollapse ==
    (Done /\ SingleTitleCluster) =>
        /\ Len(result) = 1
        /\ Pri(result[1]) = MinPri(items)

\* three items of one title arriving from worst to best priority, linked by
\* title only and by canonical key: the last one is the output
C9_Witness ==
    /\ Done
    /\ SingleTitleCluster
    /\ Len(items) = 3
    /\ Pri(items[3]) < Pri(items[2])
    /\ Pri(items[2]) < Pri(items[1])
    /\ ~SameKey(items[1], items[2])
    /\ ~SameUrl(items[1], items[2])
    /\ SameKey(items[2], items[3])
    /\ result = <<items[3]>>

-----------------------------------------------------------------------------
(* C10 *)

\* no item is in history and no two items of the batch are judged duplicates
DuplicateFree ==
    /\ NoneInHistory
    /\ \A i, j \in DOMAIN items : i # j => ~JudgedDuplicates(items[i], items[j])

\* C10: a batch without history matches and without duplicates is returned
\* as it is, the empty batch included.
C10_IdentityOnDuplicateFree == (Done /\ DuplicateFree) => result = items

\* a duplicate-free batch of three items, two of which share a short title
C10_Witness ==
    /\ Done
    /\ DuplicateFree
    /\ Len(items) = 3
    /\ norm_title_of(items[1]) = norm_title_of(items[3])
    /\ result = items

-----------------------------------------------------------------------------
(* Vocabulary of the properties of a run *)

\* the entries of calls that are calls of the stage name, whatever their end
CallsOf(name) ==
    SelectSeq(calls, LAMBDA c : c \in {name, name \o ":raised", name \o ":caught"})

\* the calls of the stages that are not optional, in order
MainStages == {"collect_all", "load_history", "deduplicate", "process", "save_report"}

CallsBeforeSave ==
    SelectSeq(calls, LAMBDA c : c \in MainStages \/ c \in {n \o ":raised" : n \in MainStages})

\* save_history was called and returned
HistorySaved == CallsOf("save_history") = <<"save_history">>

\* the strings of the set S of known strings, in the order of the table
InOrder(S) == The({SelectSeq(SortedStrings, LAMBDA x : x \in T) : T \in {S}})

\* list is in ascending order without repetition: the table is, and the
\* list holds strings of the table in the order of the table
Ascending(list) ==
    The({ /\ TableAscending
          /\ T \subseteq KnownStrings
          /\ list = InOrder(T) :
          T \in {ToSet(list)} })

\* how many strings of the set S of known strings are greater than its
\* member x: those after x in the ascending list of S
Outranked(S, x) ==
    The({ Len(seq) - Min({i \in DOMAIN seq : seq[i] = x}) : seq \in {InOrder(S)} })

\* list is S in ascending order, truncated to its cap greatest entries: the
\* strings of S it leaves out are less than its first, the least it holds
CappedCopy(list, S, cap) ==
    The({ /\ Len(list) <= cap
          /\ TableAscending
          /\ T \subseteq KnownStrings
          /\ list = InOrder(T)
          /\ T \subseteq S
          /\ Cardinality(S) <= cap => T = S
          /\ Cardinality(S) > cap =>
                /\ Len(list) = cap
                /\ \A d \in S \ T : StrLess(d, list[1]) :
          T \in {ToSet(list)} })

-----------------------------------------------------------------------------
(* C11 *)

\* C11: save_history is called at most once in a run, and only after
\* collect, load_history, deduplicate, process and save_report have returned,
\* in that order, with a non-empty batch, a non-empty deduplicate output and
\* llm_ok true; a run that ends for one of these three reasons has written
\* neither a report nor the history file.
C11_HistoryOnlyAfterSuccess ==
    /\ Len(CallsOf("save_history")) <= 1
    /\ Len(passed) = Len(CallsOf("save_history"))
    /\ CallsOf("save_history") # <<>> =>
          /\ CallsBeforeSave = <<"collect_all", "load_history", "deduplicate",
                                 "process", "save_report">>
          /\ calls[Len(calls)] \in {"save_history", "save_history:raised"}
          /\ items # <<>>
          /\ deduplicate(items, history) # <<>>
          /\ report[1].llm_ok
          /\ Len(saved_report) = 1
    /\ (RunOver /\ (\/ items = <<>>
                    \/ (CallsOf("deduplicate") # <<>> /\ result = <<>>)
                    \/ (report # <<>> /\ ~report[1].llm_ok))) =>
          /\ passed = <<>>
          /\ saved_report = <<>>
          /\ file \in HistoryFiles

\* a run that wrote the history although two optional stages failed
C11_Witness ==
    /\ RunOver
    /\ outcome = "returned"
    /\ HistorySaved
    /\ CallsOf("generate_audio") = <<"generate_audio:caught">>
    /\ CallsOf("push_report") = <<"push_report:caught">>

-----------------------------------------------------------------------------
(* C12 *)

\* C12: after a save_history call that returned, each persisted collection
\* has at most its cap of entries, is a subset of the set passed in, equals
\* it when that set is within the cap, and is otherwise the cap-many
\* lexicographically greatest entries of it; the cap is 10,000 for the URLs
\* and 5,000 for the canonical keys.
C12_CapEnforcement ==
    HistorySaved =>
        /\ file.status \in {"ok", "unreadable"}
        /\ CappedCopy(file.data.urls, passed[1].urls, MAX_URLS)
        /\ CappedCopy(file.data.canonical_keys, passed[1].canonical_keys,
                      MAX_CANONICAL_KEYS)
        /\ file.data.count = Len(file.data.urls)

\* a run that loaded 10,000 URLs and 5,000 keys, added to both, and saved
\* 10,000 and 5,000
C12_Witness ==
    /\ HistorySaved
    /\ Cardinality(history.urls) = MAX_URLS
    /\ Cardinality(history.canonical_keys) = MAX_CANONICAL_KEYS
    /\ Cardinality(passed[1].urls) > MAX_URLS
    /\ Cardinality(passed[1].canonical_keys) > MAX_CANONICAL_KEYS
    /\ Len(file.data.urls) = MAX_URLS
    /\ Len(file.data.canonical_keys) = MAX_CANONICAL_KEYS

-----------------------------------------------------------------------------
(* C13 *)

\* C13: load_history never raises; for a file that is absent, unreadable or
\* malformed it returns two empty sets, and for a well-formed file the two
\* collections stored in it.
C13_LoadNeverRaises ==
    /\ CallsOf("load_history") \in {<<>>, <<"load_history">>}
    /\ pc = "deduplicate" =>
          history = IF file.status = "ok"
                    THEN [urls |-> ToSet(Get(file.data, "urls")),
                          canonical_keys |-> ToSet(Get(file.data, "canonical_keys"))]
                    ELSE [urls |-> {}, canonical_keys |-> {}]

-----------------------------------------------------------------------------
(* C14 *)

\* C14: a run in which save_history raised ends with that exception and not
\* by a normal return, and the report save_report wrote is still there; a run
\* that called save_history and returned normally has written the file, which
\* is readable unless its mode denied reading before the run.
C14_SaveFailureSurfaced ==
    /\ CallsOf("save_history") = <<"save_history:raised">> =>
          /\ RunOver
          /\ outcome = "raised"
          /\ saved_report = <<report[1].top_items>>
    /\ (outcome = "returned" /\ passed # <<>>) =>
          /\ HistorySaved
          /\ file.status \in {"ok", "unreadable"}
          /\ file.data = save_history(passed[1])
          /\ file.status = "unreadable" =>
                history = [urls |-> {}, canonical_keys |-> {}]

\* a run whose history write failed half-way, after the report was written
C14_Witness ==
    /\ RunOver
    /\ calls[Len(calls)] = "save_history:raised"
    /\ outcome = "raised"
    /\ file.status = "malformed"
    /\ Len(saved_report) = 1

-----------------------------------------------------------------------------
(* C15 *)

Unknown(item) == item.source \notin ListedSources

\* C15: an item that is not in history and matches no index entry is
\* appended, whatever its source; an item of an unlisted source never
\* replaces an entry of a listed source; an item of a listed source replaces
\* the entry of an unlisted source it is a duplicate of.
C15_UnknownSourcesLast ==
    [][(InLoop /\ ~MatchedByHistory(items[pos])) =>
          /\ MatchedPosition = 0 => result' = Append(result, items[pos])
          /\ (/\ MatchedPosition # 0
              /\ Unknown(items[pos])
              /\ ~Unknown(result[MatchedPosition])) => result' = result
          /\ (/\ MatchedPosition # 0
              /\ ~Unknown(items[pos])
              /\ Unknown(result[MatchedPosition])) =>
                 result' = [result EXCEPT ![MatchedPosition] = items[pos]]]_vars

\* an item of an unlisted source was appended and then replaced by a
\* duplicate of the third tier; a second copy of it was dropped
C15_Witness ==
    /\ Done
    /\ Len(items) = 3
    /\ Unknown(items[1])
    /\ Pri(items[2]) = 3
    /\ items[3] = items[1]
    /\ result = <<items[2]>>

-----------------------------------------------------------------------------
(* normalize_url on its own: URLs built from parts, varied one part at a time *)

MaxTracking == 1

\* no call of deduplicate and no run is going on
Idle ==
    /\ items = <<>>
    /\ history = [urls |-> {}, canonical_keys |-> {}]
    /\ pos = 1
    /\ pc = "idle"
    /\ result = <<>>
    /\ canonical_index = EmptyIndex
    /\ norm_url_index = EmptyIndex
    /\ title_index = EmptyIndex
    /\ file = AbsentFile
    /\ calls = <<>>
    /\ report = <<>>
    /\ saved_report = <<>>
    /\ passed = <<>>
    /\ outcome = "running"
    /\ futures = NoFutures

StaysIdle ==
    UNCHANGED <<items, history, pos, pc, result, canonical_index, norm_url_index,
                title_index, file, calls, report, saved_report, passed, outcome,
                futures>>

\* hosts that do not begin with the label www
UrlHosts == {"a.com", "Example.COM"}

UrlPorts == {"", ":8080"}

UrlPaths == {"", "/p/q"}

\* queries without tracking parameters, as lists of parameters; the escape
\* of the last one is a byte that is not UTF-8
UrlQueries == {<<>>, <<"b=2", "a=1">>, <<"q=caf%E9">>}

\* parameters whose name is in _TRACKING_PARAMS up to case
TrackingQueryParams == {"utm_source=x", "FBCLID=y", "ref"}

\* the text of a URL given by its parts
BuildUrl(parts) ==
    parts.scheme \o "://" \o parts.www \o parts.host \o parts.port
    \o parts.path \o parts.slash
    \o (IF parts.query = <<>> THEN "" ELSE "?" \o JoinWith(parts.query, "&", 1))
    \o parts.fragment

\* the URL with https, no www label, no trailing slash, no tracking
\* parameter and no fragment
PlainUrl(parts) ==
    [parts EXCEPT !.scheme = "https", !.www = "", !.slash = "",
                  !.query = SelectSeq(parts.query, LAMBDA q : q \notin TrackingQueryParams),
                  !.fragment = ""]

\* list with x inserted so that it becomes the entry at position i
InsertAt(list, i, x) == SubSeq(list, 1, i - 1) \o <<x>> \o SubSeq(list, i, Len(list))

Normalized(parts) == normalize_url(BuildUrl(parts))

UrlInit ==
    /\ Idle
    /\ \E h \in UrlHosts, p \in UrlPorts, path \in UrlPaths, q \in UrlQueries :
          input = [scheme |-> "https", www |-> "", host |-> h, port |-> p,
                   path |-> path, slash |-> "", query |-> q, fragment |-> ""]
    /\ output = Normalized(input)

\* the same URL with one part changed
Varied(parts) ==
    /\ input' = parts
    /\ output' = Normalized(parts)
    /\ StaysIdle

SwitchScheme ==
    Varied([input EXCEPT !.scheme = IF input.scheme = "https" THEN "http" ELSE "https"])

ToggleWww == Varied([input EXCEPT !.www = IF input.www = "" THEN "www." ELSE ""])

ToggleSlash == Varied([input EXCEPT !.slash = IF input.slash = "" THEN "/" ELSE ""])

AddTracking ==
    /\ Cardinality({i \in DOMAIN input.query : input.query[i] \in TrackingQueryParams})
          < MaxTracking
    /\ \E t \in TrackingQueryParams, i \in 1..(Len(input.query) + 1) :
          Varied([input EXCEPT !.query = InsertAt(input.query, i, t)])

ToggleFragment ==
    Varied([input EXCEPT !.fragment = IF input.fragment = "" THEN "#top" ELSE ""])

UrlNext ==
    \/ SwitchScheme
    \/ ToggleWww
    \/ ToggleSlash
    \/ AddTracking
    \/ ToggleFragment

UrlSpec == UrlInit /\ [][UrlNext]_vars

-----------------------------------------------------------------------------
(* C16 *)

\* C16: a URL that differs from another one only in its scheme (http or
\* https), a leading www label, a trailing slash, tracking parameters (in any
\* case) or its fragment has the same normalized URL; the normalized URL has
\* the scheme https, the host in lower case and no fragment; the empty string
\* normalizes to itself.
C16_UrlEquivalence ==
    /\ output = Normalized(PlainUrl(input))
    /\ StartsWith(output, "https://" \o Lower(input.host) \o input.port)
    /\ IndexOf(output, "#") = 0
    /\ normalize_url("") = ""

\* a URL with every one of the five differences at once
C16_Witness ==
    /\ BuildUrl(input) = "http://www.Example.COM:8080/p/q/?b=2&FBCLID=y&a=1#top"
    /\ output = "https://example.com:8080/p/q?b=2&a=1"

-----------------------------------------------------------------------------
(* extract_canonical_key on its own: the URLs of one paper, and other URLs *)

\* paper identifiers: four digits, a dot, four or five digits
PaperIds == {"2602.06570", "2602.0657", "0704.0001", "2501.00001", "1706.03762"}

PaperVersions == {"", "v1", "v12"}

\* URLs of none of the three shapes
OtherUrls ==
    {"", "https://arxiv.org/list/cs.CL/recent", "https://arxiv.org/abs/cs/0112017",
     "https://huggingface.co/models/2602.06570", "https://ARXIV.org/abs/2602.06570",
     "https://arxiv.org/abs/2602.065", "https://github.com/a/b"}

\* the URL of a paper in one of the three shapes
PaperUrl(paper) ==
    CASE paper.shape = "abs" ->
            paper.scheme \o "://" \o paper.www \o "arxiv.org/abs/" \o paper.id
            \o paper.version
      [] paper.shape = "pdf" ->
            paper.scheme \o "://" \o paper.www \o "arxiv.org/pdf/" \o paper.id
            \o paper.version \o paper.suffix
      [] paper.shape = "hf" ->
            paper.scheme \o "://" \o "huggingface.co/papers/" \o paper.id
      [] OTHER -> paper.url

KeyOf(paper) == extract_canonical_key([url |-> PaperUrl(paper)])

KeyInit ==
    /\ Idle
    /\ \/ \E id \in PaperIds :
             input = [shape |-> "abs", id |-> id, scheme |-> "https", www |-> "",
                      version |-> "", suffix |-> ""]
       \/ \E u \in OtherUrls : input = [shape |-> "other", url |-> u]
    /\ output = KeyOf(input)

\* the same paper under another URL
Relocated(paper) ==
    /\ input.shape # "other"
    /\ input' = paper
    /\ output' = KeyOf(paper)
    /\ StaysIdle

ChangeShape == \E sh \in {"abs", "pdf", "hf"} : Relocated([input EXCEPT !.shape = sh])

ChangeVersion == \E v \in PaperVersions : Relocated([input EXCEPT !.version = v])

ChangeSuffix == \E x \in {"", ".pdf"} : Relocated([input EXCEPT !.suffix = x])

ChangeHost ==
    \E sc \in {"http", "https"}, w \in {"", "www."} :
        Relocated([input EXCEPT !.scheme = sc, !.www = w])

KeyNext ==
    \/ ChangeShape
    \/ ChangeVersion
    \/ ChangeSuffix
    \/ ChangeHost

KeySpec == KeyInit /\ [][KeyNext]_vars

-----------------------------------------------------------------------------
(* C17 *)

\* C17: the abs URL, the pdf URL (with or without a version) and the papers
\* URL of a paper all give the key "arxiv:" followed by its identifier; a URL
\* of none of the three shapes gives no key.
C17_KeyEquivalence ==
    IF input.shape = "other" THEN output = None
    ELSE output = "arxiv:" \o input.id

\* the pdf URL of a paper with a five-digit number and a version
C17_Witness ==
    /\ PaperUrl(input) = "http://www.arxiv.org/pdf/2602.06570v12.pdf"
    /\ output = "arxiv:2602.06570"

-----------------------------------------------------------------------------
(* C18 *)

\* the items deduplicate returned in this run
Survivors == Range(deduplicate(items, history))

SurvivorKeys == {canon_key_of(v) : v \in Survivors} \ {None}

\* C18: the dict passed to save_history holds the loaded URLs and the raw
\* URLs of all items deduplicate returned, and the loaded keys and the keys
\* of those items, and nothing else; when neither set exceeds its cap, the
\* file written holds exactly these entries.
C18_RunPersists ==
    passed # <<>> =>
        /\ passed[1].urls = history.urls \cup {v.url : v \in Survivors}
        /\ passed[1].canonical_keys = history.canonical_keys \cup SurvivorKeys
        /\ (/\ HistorySaved
            /\ Cardinality(passed[1].urls) <= MAX_URLS
            /\ Cardinality(passed[1].canonical_keys) <= MAX_CANONICAL_KEYS) =>
               /\ ToSet(file.data.urls) = history.urls \cup {v.url : v \in Survivors}
               /\ ToSet(file.data.canonical_keys) =
                     history.canonical_keys \cup SurvivorKeys

\* a run that loaded a URL, kept two new items, one of them with a key, and
\* wrote all of it within the caps
C18_Witness ==
    /\ HistorySaved
    /\ history.urls # {}
    /\ Cardinality(Survivors) = 2
    /\ SurvivorKeys # {}
    /\ Cardinality(ToSet(file.data.urls)) = Cardinality(history.urls) + 2
    /\ ToSet(file.data.canonical_keys) = SurvivorKeys

-----------------------------------------------------------------------------
(* C19 *)

\* the URLs the run added to the file
AddedUrls == ToSet(file.data.urls) \ history.urls

ReportUrls == {report[1].top_items[i].url : i \in DOMAIN report[1].top_items}

\* C19 as stated: every URL a run adds to the persisted history is the URL
\* of an item of the report (top_items).
C19_OnlyReportedUrls == HistorySaved => AddedUrls \subseteq ReportUrls

\* C19 amended: every URL a run adds to the persisted history is the URL of
\* an item deduplicate returned in that run, and the URL of every such item,
\* in the report or cut by the top-N selection, is passed to save_history.
C19_UrlsOfAllSurvivors ==
    /\ HistorySaved => AddedUrls \subseteq {v.url : v \in Survivors}
    /\ passed # <<>> => \A v \in Survivors : v.url \in passed[1].urls

\* a run whose file holds the URL of an item that the top-N selection cut
C19_Witness ==
    /\ HistorySaved
    /\ \E v \in Survivors :
          /\ v.url \notin ReportUrls
          /\ v.url \in AddedUrls

-----------------------------------------------------------------------------
(* C20 *)

\* the current item is a duplicate of an entry of strictly worse priority
Replacing ==
    /\ InLoop
    /\ ~MatchedByHistory(items[pos])
    /\ MatchedPosition # 0
    /\ Pri(items[pos]) < Pri(result[MatchedPosition])

\* index d maps key k to position p
MapsTo(d, k, p) == k \in DOMAIN d /\ d[k] = p

\* C20: a replacement stores the new item at the position of the entry it
\* matched and changes no other position; right after it the canonical index
\* (if the new item has a key), the URL index and the title index (if the
\* normalized title has at least 15 characters) map the new item's key, URL
\* and title to that position.
C20_ReplacementRefreshesIndices ==
    [][Replacing =>
          /\ result' = [result EXCEPT ![MatchedPosition] = items[pos]]
          /\ canon_key_of(items[pos]) # None =>
                MapsTo(canonical_index', canon_key_of(items[pos]), MatchedPosition)
          /\ MapsTo(norm_url_index', norm_url_of(items[pos]), MatchedPosition)
          /\ title_indexable(norm_title_of(items[pos])) =>
                MapsTo(title_index', norm_title_of(items[pos]), MatchedPosition)]_vars

\* the second of two items replaced the first at position 2 through the title
\* layer alone, and its key and URL are indexed at that position
C20_Witness ==
    /\ Done
    /\ Len(items) = 3
    /\ result = <<items[1], items[3]>>
    /\ ~SameKey(items[2], items[3])
    /\ ~SameUrl(items[2], items[3])
    /\ canon_key_of(items[3]) # None
    /\ MapsTo(canonical_index, canon_key_of(items[3]), 2)
    /\ MapsTo(norm_url_index, norm_url_of(items[3]), 2)
    /\ MapsTo(title_index, norm_title_of(items[3]), 2)

-----------------------------------------------------------------------------
(* C21 *)

\* the positions the three indices give for the current item, 0 for none
KeyPosition ==
    IF canon_key_of(items[pos]) # None
       /\ canon_key_of(items[pos]) \in DOMAIN canonical_index
    THEN canonical_index[canon_key_of(items[pos])] ELSE 0

UrlPosition ==
    IF norm_url_of(items[pos]) \in DOMAIN norm_url_index
    THEN norm_url_index[norm_url_of(items[pos])] ELSE 0

TitlePosition ==
    IF Len(norm_title_of(items[pos])) >= MIN_TITLE_LENGTH
       /\ norm_title_of(items[pos]) \in DOMAIN title_index
    THEN title_index[norm_title_of(items[pos])] ELSE 0

\* the position given by the first layer that matches, in the order key,
\* URL, title
FirstLayerPosition ==
    IF KeyPosition # 0 THEN KeyPosition
    ELSE IF UrlPosition # 0 THEN UrlPosition
    ELSE TitlePosition

\* result with the current item resolved against position p by priority
ResolvedAt(p) ==
    IF Pri(items[pos]) < Pri(result[p])
    THEN [result EXCEPT ![p] = items[pos]]
    ELSE result

\* C21: an item not dropped by history that matches some layer is resolved
\* against exactly one position, the one given by the first matching layer in
\* the order canonical key, normalized URL, normalized title: the result
\* changes at that position only, by source priority; every other position,
\* among them one that a lower layer maps the item to, keeps its entry.
C21_LayerPrecedence ==
    [][(InLoop /\ ~MatchedByHistory(items[pos]) /\ FirstLayerPosition # 0) =>
          /\ result' = ResolvedAt(FirstLayerPosition)
          /\ \A q \in {UrlPosition, TitlePosition} \ {0, FirstLayerPosition} :
                result'[q] = result[q]]_vars

\* the third item has the key of the first and the title of the second, and
\* a better priority than both: it was resolved against the first, which it
\* replaced, and the second entry is still there
C21_Witness ==
    /\ Done
    /\ Len(items) = 3
    /\ NoneInHistory
    /\ SameKey(items[1], items[3])
    /\ ~SameKey(items[2], items[3])
    /\ SameLongTitle(items[2], items[3])
    /\ ~JudgedDuplicates(items[1], items[2])
    /\ Pri(items[3]) < Pri(items[1])
    /\ Pri(items[3]) < Pri(items[2])
    /\ result = <<items[3], items[2]>>

-----------------------------------------------------------------------------
(* C22 *)

\* no two positions of the list hold items with the same canonical key
UniqueKeys(list) ==
    \A i, j \in DOMAIN list : (i # j) => ~SameKey(list[i], list[j])

\* every mapping of the canonical index is kept by the step
KeyMappingsKept ==
    \A k \in DOMAIN canonical_index :
        k \in DOMAIN canonical_index' /\ canonical_index'[k] = canonical_index[k]

\* C22: at every point of a deduplicate call, and so in its output, no two
\* items of the result have the same canonical key; a canonical key that is
\* mapped to a position stays mapped to that position until the call returns.
C22_CanonicalKeysUnique == [](UniqueKeys(result)) /\ [][KeyMappingsKept]_vars

\* two items that share nothing but their canonical key were merged into one
\* entry, and the key is mapped to it
C22_Witness ==
    /\ Done
    /\ Len(items) = 2
    /\ NoneInHistory
    /\ SameKey(items[1], items[2])
    /\ ~SameUrl(items[1], items[2])
    /\ ~SameLongTitle(items[1], items[2])
    /\ Len(result) = 1
    /\ MapsTo(canonical_index, canon_key_of(items[1]), 1)

-----------------------------------------------------------------------------
(* C23 *)

\* no two positions of the list hold items the URL layer or the title layer
\* would judge duplicates
UniqueUrlsAndTitles(list) ==
    \A i, j \in DOMAIN list :
        (i # j) => (~SameUrl(list[i], list[j]) /\ ~SameLongTitle(list[i], list[j]))

\* C23: no two distinct positions of the output of deduplicate hold items
\* with the same normalized URL, and no two hold items with the same
\* normalized title of at least 15 characters.
C23_OutputDuplicateFree == Done => UniqueUrlsAndTitles(result)

-----------------------------------------------------------------------------
(* C24 *)

\* the locals of the call after its first n items
StateAfter(n) == loop_from(EmptyState, SubSeq(items, 1, n), 1, history)

\* the position item i was resolved against: 0 when history dropped it, the
\* position of the first layer that matched, or the position it was appended at
ResolvedPosition(i) ==
    LET st    == StateAfter(i - 1)
        item  == items[i]
        key   == canon_key_of(item)
        url   == norm_url_of(item)
        title == norm_title_of(item)
    IN  IF MatchedByHistory(item) THEN 0
        ELSE IF key # None /\ key \in DOMAIN st.canonical_index
             THEN st.canonical_index[key]
        ELSE IF url \in DOMAIN st.norm_url_index THEN st.norm_url_index[url]
        ELSE IF Len(title) >= MIN_TITLE_LENGTH /\ title \in DOMAIN st.title_index
             THEN st.title_index[title]
        ELSE Len(st.result) + 1

\* the items processed so far that were resolved against position p
ResolvedAgainst(p) == {i \in 1..(pos - 1) : ResolvedPosition(i) = p}

\* the earliest of the items of best priority among those of R
EarliestBest(R) ==
    Min({i \in R : \A j \in R : Pri(items[i]) <= Pri(items[j])})

\* a step leaves every position with an entry of the same or a better
\* priority, and of a strictly better one when the entry changes
PriorityStep ==
    /\ Len(result') >= Len(result)
    /\ \A p \in DOMAIN result :
          /\ Pri(result'[p]) <= Pri(result[p])
          /\ (result'[p] # result[p]) => Pri(result'[p]) < Pri(result[p])

\* C24: during a deduplicate call the result list never shrinks; the source
\* priority of the entry at a position never gets worse and gets strictly
\* better at each replacement; when the call returns, the entry at each
\* position is, among all items that were resolved against that position,
\* the earliest-arriving one of the best priority.
C24_PriorityNeverWorse ==
    /\ [][PriorityStep]_vars
    /\ [](Done => \A p \in DOMAIN result :
                     result[p] = items[EarliestBest(ResolvedAgainst(p))])

\* three items of strictly improving priority were resolved against one
\* position, which was replaced twice
C24_Witness ==
    /\ Done
    /\ Len(items) = 3
    /\ ResolvedAgainst(1) = {1, 2, 3}
    /\ Pri(items[1]) > Pri(items[2])
    /\ Pri(items[2]) > Pri(items[3])
    /\ result = <<items[3]>>

-----------------------------------------------------------------------------
(* C25 *)

\* C25: when the current item is dropped by the history filter, or is judged
\* a duplicate of an entry of equal or better priority, the step leaves the
\* result list and the three indices exactly as they were: nothing of the
\* dropped item is registered.
C25_DroppedLeaveNoTrace ==
    [][(InLoop /\ (MatchedByHistory(items[pos]) \/ LosingDuplicate)) =>
          UNCHANGED <<result, canonical_index, norm_url_index, title_index>>]_vars

\* the first item was dropped by history and the third lost against the
\* second, which it matches by title only: the one entry is the second item
\* and the URL index holds its URL and nothing else
C25_Witness ==
    /\ Done
    /\ Len(items) = 3
    /\ MatchedByHistory(items[1])
    /\ ~MatchedByHistory(items[2])
    /\ ~MatchedByHistory(items[3])
    /\ SameLongTitle(items[2], items[3])
    /\ ~SameUrl(items[2], items[3])
    /\ ~SameUrl(items[1], items[2])
    /\ Pri(items[3]) >= Pri(items[2])
    /\ result = <<items[2]>>
    /\ DOMAIN norm_url_index = {norm_url_of(items[2])}

-----------------------------------------------------------------------------
(* C26 *)

\* the accumulated sets passed to save_history were within the caps
WithinCaps ==
    /\ Cardinality(passed[1].urls) <= MAX_URLS
    /\ Cardinality(passed[1].canonical_keys) <= MAX_CANONICAL_KEYS

\* what the next run loads from the file this run wrote
NextHistory == load_history(file)

\* C26: after a run that saved history with the caps not exceeded,
\* deduplicate applied to the same collected batch with the saved history
\* returns the empty list: the survivors and the items dropped as losing
\* duplicates are all suppressed.
C26_WholeBatchSuppressed ==
    (HistorySaved /\ WithinCaps) => deduplicate(items, NextHistory) = <<>>

-----------------------------------------------------------------------------
(* C27 *)

SurvivorUrls == {v.url : v \in Survivors}

\* the entries of the accumulated sets that the save did not persist
DroppedUrls == passed[1].urls \ ToSet(file.data.urls)

DroppedKeys == passed[1].canonical_keys \ ToSet(file.data.canonical_keys)

\* C27 as stated: when the accumulated URL set (or canonical-key set) exceeds
\* its cap at save time, every URL (or key) contributed by the surviving
\* items of the current run is persisted, and the entries dropped were
\* loaded from earlier runs.
C27_OnlyOldEvicted ==
    HistorySaved =>
        /\ Cardinality(passed[1].urls) > MAX_URLS =>
              /\ SurvivorUrls \subseteq ToSet(file.data.urls)
              /\ DroppedUrls \subseteq history.urls
        /\ Cardinality(passed[1].canonical_keys) > MAX_CANONICAL_KEYS =>
              /\ SurvivorKeys \subseteq ToSet(file.data.canonical_keys)
              /\ DroppedKeys \subseteq history.canonical_keys

\* C27, amended: eviction goes by lexicographic order alone.  A URL (or key)
\* contributed by a surviving item of the current run is persisted exactly
\* when fewer than cap entries of the accumulated set are greater than it
\* (10,000 for a URL, 5,000 for a key), and every dropped entry, loaded or
\* new, is smaller than every persisted one: than the first of the persisted
\* list, which is in ascending order.
C27_EvictionByOrder ==
    HistorySaved =>
        /\ \A u \in SurvivorUrls :
              u \in ToSet(file.data.urls) <=> Outranked(passed[1].urls, u) < MAX_URLS
        /\ \A k \in SurvivorKeys :
              k \in ToSet(file.data.canonical_keys) <=>
                 Outranked(passed[1].canonical_keys, k) < MAX_CANONICAL_KEYS
        /\ Ascending(file.data.urls)
        /\ Ascending(file.data.canonical_keys)
        /\ \A d \in DroppedUrls : StrLess(d, file.data.urls[1])
        /\ \A d \in DroppedKeys : StrLess(d, file.data.canonical_keys[1])

\* a save of more than 5,000 keys that dropped the key of an item of this
\* run and kept the 5,000 keys loaded from the file
C27_Witness ==
    /\ HistorySaved
    /\ Cardinality(passed[1].canonical_keys) > MAX_CANONICAL_KEYS
    /\ Cardinality(history.canonical_keys) = MAX_CANONICAL_KEYS
    /\ \E k \in SurvivorKeys \ history.canonical_keys : k \in DroppedKeys
    /\ history.canonical_keys \subseteq ToSet(file.data.canonical_keys)

-----------------------------------------------------------------------------
(* C28 *)

\* the history the interrupted save was writing, as load_history reads it back
NewHistory ==
    load_history(DataFile(save_history(phase7(history, result, report[1]))))

\* C28: when the process stops while save_history is writing, the history
\* file afterwards holds the complete previous contents or the complete new
\* contents: the next load_history returns the history this run loaded or
\* the one it was saving, not an empty or partial one.
C28_CrashKeepsGoodCopy ==
    outcome = "killed" =>
        /\ ~load_history_raises(file)
        /\ load_history(file) \in {history, NewHistory}

-----------------------------------------------------------------------------
(* main.py: _collect_all, the collectors as tasks of a thread pool.  items is
   all_items; futures maps each submitted collector to the state of its task
   ("queued", "running", "returned", "raised", then "consumed" or "logged"
   once the main thread has taken it from as_completed) and to the list its
   collect() returned. *)

\* ThreadPoolExecutor(max_workers=5)
max_workers == 5

\* collectors in the order of collector_configs, six of the nine, so that
\* the pool can be full
CollectorOrder == <<"arxiv", "blog", "github", "hf_papers", "hackernews", "reddit">>

CollectorNames == Range(CollectorOrder)

\* what collect() of each collector can return
Yields(c) ==
    CASE c = "arxiv" -> {<<I_arxiv>>, <<I_arxiv, I_arxiv2>>}
      [] c = "blog" -> {<<I_blog>>}
      [] c = "github" -> {<<>>}
      [] c = "hf_papers" -> {<<I_hf2, I_hf>>}
      [] c = "hackernews" -> {<<>>, <<I_hn>>}
      [] c = "reddit" -> {<<I_reddit>>}

\* executor.submit(c.collect, keywords) for the enabled collectors
Submitted(enabled) == [c \in enabled |-> [state |-> "queued", items |-> <<>>]]

Running == {c \in DOMAIN futures : futures[c].state = "running"}

Finished == {c \in DOMAIN futures : futures[c].state \in {"returned", "raised"}}

Taken == {c \in DOMAIN futures : futures[c].state \in {"consumed", "logged"}}

\* c was submitted before d
Before(c, d) ==
    \E i, j \in DOMAIN CollectorOrder :
        i < j /\ CollectorOrder[i] = c /\ CollectorOrder[j] = d

CollectInit ==
    /\ items = <<>>
    /\ history = [urls |-> {}, canonical_keys |-> {}]
    /\ pos = 1
    /\ pc = "as_completed"
    /\ result = <<>>
    /\ canonical_index = EmptyIndex
    /\ norm_url_index = EmptyIndex
    /\ title_index = EmptyIndex
    /\ file = AbsentFile
    /\ calls = <<>>
    /\ report = <<>>
    /\ saved_report = <<>>
    /\ passed = <<>>
    /\ outcome = "running"
    /\ input = <<>>
    /\ output = <<>>
    /\ \E enabled \in SUBSET CollectorNames : futures = Submitted(enabled)

\* what _collect_all leaves alone
CollectFrame ==
    /\ UNCHANGED <<history, pos, result, canonical_index, norm_url_index,
                   title_index>>
    /\ UNCHANGED run_vars
    /\ UNCHANGED text_vars

\* a worker thread takes the oldest queued task
StartCollector(c) ==
    /\ c \in DOMAIN futures
    /\ futures[c].state = "queued"
    /\ Cardinality(Running) < max_workers
    /\ \A d \in DOMAIN futures : Before(d, c) => futures[d].state # "queued"
    /\ futures' = [futures EXCEPT ![c].state = "running"]
    /\ UNCHANGED <<items, pc>>
    /\ CollectFrame

\* c.collect(keywords) returns a list, or raises
FinishCollector(c) ==
    /\ c \in DOMAIN futures
    /\ futures[c].state = "running"
    /\ \/ \E list \in Yields(c) :
             futures' = [futures EXCEPT ![c] = [state |-> "returned", items |-> list]]
       \/ futures' = [futures EXCEPT ![c].state = "raised"]
    /\ UNCHANGED <<items, pc>>
    /\ CollectFrame

\* the loop ends at the first collector that failed
after_collector_failure_aborts == "end"

\* where the main thread goes after logging a failed collector: to the next
\* future of as_completed
after_collector_failure == "as_completed"

\* one iteration of "for future in as_completed(futures)": a finished future,
\* whichever, is taken; its list is appended to all_items, or its exception
\* is logged
TakeFuture(c) ==
    /\ pc = "as_completed"
    /\ c \in Finished
    /\ IF futures[c].state = "returned"
       THEN /\ items' = items \o futures[c].items
            /\ futures' = [futures EXCEPT ![c].state = "consumed"]
            /\ pc' = pc
       ELSE /\ items' = items
            /\ futures' = [futures EXCEPT ![c].state = "logged"]
            /\ pc' = after_collector_failure
    /\ CollectFrame

\* every future was taken, or no collector is enabled: return all_items
CollectReturn ==
    /\ pc = "as_completed"
    /\ Taken = DOMAIN futures
    /\ pc' = "end"
    /\ UNCHANGED <<items, futures>>
    /\ CollectFrame

CollectNext ==
    \/ \E c \in CollectorNames : StartCollector(c)
    \/ \E c \in CollectorNames : FinishCollector(c)
    \/ \E c \in CollectorNames : TakeFuture(c)
    \/ CollectReturn

\* the main thread is scheduled: it takes a finished future, and returns when
\* all are taken
CollectSpec ==
    /\ CollectInit
    /\ [][CollectNext]_vars
    /\ WF_vars(\E c \in CollectorNames : TakeFuture(c))
    /\ WF_vars(CollectReturn)

-----------------------------------------------------------------------------
(* C29 *)

RECURSIVE Chain(_)
\* the lists of a list, joined
Chain(lists) ==
    IF lists = <<>> THEN <<>> ELSE Head(lists) \o Chain(Tail(lists))

\* the collectors whose collect() returned
Succeeded ==
    {c \in DOMAIN futures : futures[c].state \in {"returned", "consumed"}}

\* the orders in which the collectors of S can be arranged
Orders(S) ==
    {o \in [1..Cardinality(S) -> S] : \A i, j \in DOMAIN o : o[i] = o[j] => i = j}

\* list is made of the lists the collectors of S returned, each whole and in
\* its own order, one after the other in some order of the collectors
JoinedLists(list, S) ==
    \E o \in Orders(S) : list = Chain([i \in DOMAIN o |-> futures[o[i]].items])

\* no collector is queued or running any more
AllCollectorsFinished ==
    \A c \in DOMAIN futures : futures[c].state \notin {"queued", "running"}

\* C29: whatever the order in which the collectors complete, _collect_all
\* returns only when every collector has finished and been taken; the batch
\* it returns is made of the lists of the collectors that returned, each list
\* contiguous and in its own order, and of nothing from a collector that
\* raised; and once all collectors have finished, it does return.
C29_CollectorsIsolated ==
    /\ [](pc = "end" => (Taken = DOMAIN futures /\ JoinedLists(items, Succeeded)))
    /\ (AllCollectorsFinished ~> pc = "end")

\* one collector raised, the two others returned items, and the one submitted
\* later was taken first
C29_Witness ==
    /\ pc = "end"
    /\ DOMAIN futures = {"arxiv", "hf_papers", "hackernews"}
    /\ futures["hf_papers"].state = "logged"
    /\ items = <<I_hn, I_arxiv, I_arxiv2>>

-----------------------------------------------------------------------------
(* C30 *)

OptionalStages == {"generate_audio", "build_pages", "push_report"}

\* the optional stages that were called and failed
FailedStages == {n \in OptionalStages : CallsOf(n) = <<n \o ":caught">>}

\* the loaded history with the URLs and keys of every item deduplicate returned
FullAccumulated ==
    [urls |-> history.urls \cup {v.url : v \in Survivors},
     canonical_keys |-> history.canonical_keys \cup SurvivorKeys]

\* C30: in a run that the LLM stage and save_report let pass and that is not
\* killed, whichever of generate_audio, build_pages and push_report fail,
\* the failure is caught and save_history is called exactly once, with the
\* full accumulated set; a run in which save_report raised ends without a
\* call of save_history.
C30_OptionalStagesDoNotBlock ==
    /\ (RunOver /\ outcome # "killed" /\ CallsOf("save_report") = <<"save_report">>) =>
          /\ report[1].llm_ok
          /\ saved_report = <<report[1].top_items>>
          /\ \A n \in OptionalStages : CallsOf(n) \in {<<>>, <<n>>, <<n \o ":caught">>}
          /\ Len(CallsOf("save_history")) = 1
          /\ passed = <<FullAccumulated>>
    /\ CallsOf("save_report") = <<"save_report:raised">> =>
          /\ RunOver
          /\ CallsOf("save_history") = <<>>
          /\ passed = <<>>

\* audio, pages and push all failed, and the history was written with the
\* URL of a new item
C30_Witness ==
    /\ RunOver
    /\ FailedStages = OptionalStages
    /\ HistorySaved
    /\ passed = <<FullAccumulated>>
    /\ ToSet(file.data.urls) # history.urls

====
